---- MODULE Spec2Model ----
(***************************************************************************)
(* A model of the Superhuman CLI / MCP bridge: the session locator, the    *)
(* bulk thread-action runner with its confirmation gate, the composition   *)
(* commands and the calendar listing, each translated from its source.     *)
(* One behaviour of Spec is one invocation of the program: Init is the     *)
(* state after parseArgs has produced `options`, and each action is one    *)
(* synchronous stretch of a command between two awaits.                    *)
(***************************************************************************)
EXTENDS Integers, Sequences, FiniteSets, TLC

\* ------------------------------------------------------------------ bounds
MaxIds == 3
MaxTo == 2
MaxAccounts == 2
MaxTargets == 2
MaxGatewayCalls == 4
MaxMarkCalls == 2
MaxArgs == 4

ThreadIdSet == {"t1", "t2"}
EmailSet == {"a@x.com", "b@x.com"}

SeqsUpTo(S, n) == UNION {[1..k -> S] : k \in 0..n}

EmptyRecord == [x \in {} |-> TRUE]

\* A run that does not look into the target page, and a caller that has not
\* been handed anything yet.
NoPage == [kind |-> "none"]
NoReturn == [kind |-> "none"]

\* --------------------------------------------------------------- commands
BulkCommands ==
  {"archive", "delete", "mark-read", "mark-unread", "add-label",
   "remove-label", "star", "unstar", "snooze", "unsnooze"}

ComposeCommands == {"compose", "draft", "send"}

McpTools == {"superhuman_draft", "superhuman_send"}

ReplyCommands == {"reply", "reply-all", "forward"}

LabelCommands == {"add-label", "remove-label"}

\* The options parseArgs can hand to main for a bulk command.
BulkOptions ==
  {o \in [command: BulkCommands,
          threadIds: SeqsUpTo(ThreadIdSet, MaxIds),
          confirm: BOOLEAN, dryRun: BOOLEAN, json: BOOLEAN,
          labelId: {"", "Label_1"},
          snoozeUntil: {"", "tomorrow", "bogus"},
          to: {<<>>}, subject: {""}, body: {""},
          calendarDate: {""}, allAccounts: {FALSE},
   threadId: {""}, send: {FALSE}, accountArg: {""}] :
     /\ (o.command \notin LabelCommands => o.labelId = "")
     /\ (o.command # "snooze" => o.snoozeUntil = "")}

ComposeOptions ==
  [command: ComposeCommands,
   threadIds: {<<>>},
   confirm: {FALSE}, dryRun: {FALSE}, json: BOOLEAN,
   labelId: {""}, snoozeUntil: {""},
   to: SeqsUpTo(EmailSet, MaxTo), subject: {"", "S"}, body: {"", "B"},
   calendarDate: {""}, allAccounts: {FALSE},
   threadId: {""}, send: {FALSE}, accountArg: {""}]

\* reply / reply-all / forward: one thread id, --body, --send; forward
\* also takes --to.
ReplyOptions ==
  {o \in [command: ReplyCommands,
          threadIds: {<<>>},
          confirm: {FALSE}, dryRun: {FALSE}, json: BOOLEAN,
          labelId: {""}, snoozeUntil: {""},
          to: SeqsUpTo(EmailSet, 1), subject: {""}, body: {"", "B"},
          calendarDate: {""}, allAccounts: {FALSE},
          threadId: {"", "t1"}, send: BOOLEAN, accountArg: {""}] :
     o.command # "forward" => o.to = <<>>}

CalendarOptions ==
  [command: {"calendar"},
   threadIds: {<<>>},
   confirm: {FALSE}, dryRun: {FALSE}, json: BOOLEAN,
   labelId: {""}, snoozeUntil: {""},
   to: {<<>>}, subject: {""}, body: {""},
   calendarDate: {"", "today", "bogus"}, allAccounts: BOOLEAN,
   threadId: {""}, send: {FALSE}, accountArg: {""}]

\* account <index|email>: a 1-based index, an email in either case, or
\* nothing.
AccountArgs == {"", "0", "1", "2", "9", "u1@x.com", "U2@X.COM", "zz@x.com"}

AccountOptions ==
  [command: {"account"},
   threadIds: {<<>>},
   confirm: {FALSE}, dryRun: {FALSE}, json: BOOLEAN,
   labelId: {""}, snoozeUntil: {""},
   to: {<<>>}, subject: {""}, body: {""},
   calendarDate: {""}, allAccounts: {FALSE},
   threadId: {""}, send: {FALSE}, accountArg: AccountArgs]

\* The arguments of the superhuman_draft and superhuman_send tools
\* (DraftSchema, SendSchema): `to` is
\* required, subject and body are strings that may be empty.
McpOptions ==
  [command: McpTools,
   threadIds: {<<>>},
   confirm: {FALSE}, dryRun: {FALSE}, json: {FALSE},
   labelId: {""}, snoozeUntil: {""},
   to: {<<"a@x.com">>}, subject: {"", "S"}, body: {"", "B"},
   calendarDate: {""}, allAccounts: {FALSE},
   threadId: {""}, send: {FALSE}, accountArg: {""}]

\* ------------------------------------------------------------------ state
VARIABLES
  options,        \* CliOptions (or the tool arguments)
  pc,             \* position of the running command
  status,         \* "running" | "exited" (process) | "returned" (handler)
  exitStatus,     \* the status the process ended with
  exitCode,       \* process.exitCode
  conn,           \* "none" | "open" | "closed": the session handle
  connectCalls,   \* calls of connectToSuperhuman so far
  disconnectCalls,\* calls of disconnect so far
  idx,            \* 1-based position of the loop in progress
  successCount, failCount, results,   \* locals of runThreadActionCommand
  executed,       \* ids config.run was invoked on, in order
  calls,          \* gateway / top-level operations issued, with outcome
  stdoutJson,     \* payloads written by emitJson
  console,        \* lines written by error / info / success / log
  toolResult,     \* what an MCP handler returned
  accounts,       \* listAccounts() result held by cmdCalendar
  recipientResults, subjectSet, bodySet,  \* locals of cmdCompose
  draftKey,       \* what the open step returned ("" for null)
  draftState,     \* what getDraftState returned: "unset" | "null" | "state"
  draft,          \* content of the draft the target holds for this flow
  page,           \* the state of the target page the gateway code runs in
  ret,            \* what the last gateway call handed to its caller
  opened,         \* the draft key the session's open step returned
  targets,        \* CDP.List() result (locator specification)
  client          \* 0, or the position of the target the client attached to

vars == <<options, pc, status, exitStatus, exitCode, conn, connectCalls,
          disconnectCalls, idx, successCount, failCount, results, executed,
          calls, stdoutJson, console, toolResult, accounts, recipientResults,
          subjectSet, bodySet, draftKey, draftState, draft, page, ret, opened,
          targets, client>>

locatorVars == <<targets, client>>
pageVars == <<page, ret, opened>>
bulkVars == <<idx, successCount, failCount, results, executed>>
composeVars == <<recipientResults, subjectSet, bodySet, draftKey, draftState,
                 draft>>

\* ------------------------------------------------------ process plumbing
Line(stream, text) == [stream |-> stream, text |-> text]

\* process.exit(n): the process ends at once with status n.
ProcessExit(n) ==
  /\ status' = "exited"
  /\ exitStatus' = n
  /\ pc' = "exit"

\* main returns: the process ends with process.exitCode.
MainReturns(code) ==
  /\ status' = "exited"
  /\ exitStatus' = code
  /\ pc' = "done"

\* emitCommandJson: {ok, command, dryRun: options.dryRun || undefined, ...data},
\* written only when options.json is set.
emitCommandJson(o, ok, data) ==
  IF ~o.json THEN <<>>
  ELSE <<data
         @@ (IF o.dryRun THEN [dryRun |-> TRUE] ELSE EmptyRecord)
         @@ [ok |-> ok, command |-> o.command]>>

\* ------------------------------------------------- bulk confirmation gate
\* mutant: the snooze commands are left out of the gated set
isBulkDestructiveCommand_NoSnooze(command) ==
  command \in
    {"archive", "delete", "mark-read", "mark-unread", "add-label",
     "remove-label", "star", "unstar"}

\* mutant: archive is left out of the gated set
isBulkDestructiveCommand_NoArchive(command) ==
  command \in
    {"delete", "mark-read", "mark-unread", "add-label",
     "remove-label", "star", "unstar", "snooze", "unsnooze"}

isBulkDestructiveCommand(command) ==
  command \in
    {"archive", "delete", "mark-read", "mark-unread", "add-label",
     "remove-label", "star", "unstar", "snooze", "unsnooze"}

\* mutant: the gate only trips from three ids on
BulkGateRefuses_OffByOne(o) ==
  /\ isBulkDestructiveCommand(o.command)
  /\ Len(o.threadIds) > 2
  /\ ~(o.confirm \/ o.dryRun)

\* ensureBulkConfirmation reaches its refusal
BulkGateRefuses(o) ==
  /\ ~(~isBulkDestructiveCommand(o.command) \/ Len(o.threadIds) <= 1)
  /\ ~(o.confirm \/ o.dryRun)

\* mutant: the message no longer names the flag
RefusalMessage_NoFlag(o) ==
  [text |-> <<"Refusing to run", o.command, "on threads">>,
   n |-> Len(o.threadIds)]

\* `Refusing to run ${command} on ${n} threads without --yes`
RefusalMessage(o) ==
  [text |-> <<"Refusing to run", o.command, "on threads without", "--yes">>,
   n |-> Len(o.threadIds)]

ensureBulkConfirmation_Console(o) ==
  IF o.json THEN <<>>
  ELSE <<Line("error", RefusalMessage(o).text),
         Line("info", <<"Use", "--yes", "to execute, or", "--dry-run", "to preview.">>)>>

ensureBulkConfirmation_Json(o) ==
  emitCommandJson(o, FALSE, [error |-> RefusalMessage(o), threadIds |-> o.threadIds])

\* main: ensureBulkConfirmation(options), then the dispatch switch.
Main ==
  /\ pc = "main"
  /\ IF BulkGateRefuses(options)
     THEN /\ console' = console \o ensureBulkConfirmation_Console(options)
          /\ stdoutJson' = stdoutJson \o ensureBulkConfirmation_Json(options)
          /\ ProcessExit(1)
     ELSE /\ pc' = "cmd"
          /\ UNCHANGED <<console, stdoutJson, status, exitStatus>>
  /\ UNCHANGED <<options, exitCode, conn, connectCalls, disconnectCalls,
                 bulkVars, calls, toolResult, accounts, composeVars, locatorVars, pageVars>>

\* main().catch: an error thrown out of a command is reported and the
\* process exits with status 1; nothing else runs (no disconnect).
Fatal ==
  /\ console' = Append(console, Line("error", <<"Fatal error">>))
  /\ ProcessExit(1)

\* checkConnection: connectToSuperhuman returned a session, or returned null
\* / threw (both reported, null handed back); every CLI caller exits with
\* status 1 on null.
CheckConnection ==
  /\ pc \in {"connecting", "reconnecting"}
  /\ \E connected \in BOOLEAN :
       IF connected
       THEN /\ conn' = "open"
            /\ pc' = (IF pc = "connecting" THEN "connected" ELSE "reconnected")
            /\ UNCHANGED <<console, status, exitStatus>>
       ELSE /\ console' = Append(console, Line("error", <<"Could not connect to Superhuman">>))
            /\ ProcessExit(1)
            /\ UNCHANGED conn
  /\ UNCHANGED <<options, exitCode, connectCalls, disconnectCalls, bulkVars,
                 calls, stdoutJson, toolResult, accounts, composeVars, locatorVars, pageVars>>

\* ------------------------------------------------ bulk thread-action runner
\* The ThreadActionConfig each cmdX hands to runThreadActionCommand.
dryRunVerb(o) ==
  CASE o.command = "archive" -> "archive"
    [] o.command = "delete" -> "delete"
    [] o.command = "mark-read" -> "mark as read"
    [] o.command = "mark-unread" -> "mark as unread"
    [] o.command = "add-label" -> "add label"
    [] o.command = "remove-label" -> "remove label"
    [] o.command = "star" -> "star"
    [] o.command = "unstar" -> "unstar"
    [] o.command = "snooze" -> "snooze until"
    [] o.command = "unsnooze" -> "unsnooze"

extraJson(o) ==
  CASE o.command \in {"add-label", "remove-label"} -> [labelId |-> o.labelId]
    [] o.command = "snooze" -> [until |-> o.snoozeUntil, untilDisplay |-> o.snoozeUntil]
    [] OTHER -> EmptyRecord

\* parseSnoozeTime accepts the value given with --until (cmdSnooze's try).
ValidSnoozeTime(s) == s \in {"tomorrow", "next-week", "weekend", "evening"}

\* The argument checks that end the command with status 1 before anything
\* else happens: those of cmdAddLabel, cmdRemoveLabel and cmdSnooze, then the
\* one at the head of runThreadActionCommand.  <<>> when all pass.
BulkValidationError(o) ==
  IF o.command \in {"add-label", "remove-label", "snooze"} /\ Len(o.threadIds) = 0
    THEN <<"At least one thread ID is required">>
  ELSE IF o.command \in {"add-label", "remove-label"} /\ o.labelId = ""
    THEN <<"Label ID is required (--label)">>
  ELSE IF o.command = "snooze" /\ o.snoozeUntil = ""
    THEN <<"Snooze time is required (--until)">>
  ELSE IF o.command = "snooze" /\ ~ValidSnoozeTime(o.snoozeUntil)
    THEN <<"Invalid snooze time">>
  ELSE IF Len(o.threadIds) = 0
    THEN <<"At least one thread ID is required">>
  ELSE <<>>

\* mutant: the preview forgets the dryRun tag
DryRunResults_Untagged(ids) ==
  [i \in 1..Len(ids) |-> [threadId |-> ids[i], success |-> TRUE]]

\* options.threadIds.map(threadId => ({threadId, success: true, dryRun: true}))
DryRunResults(ids) ==
  [i \in 1..Len(ids) |-> [threadId |-> ids[i], success |-> TRUE, dryRun |-> TRUE]]

DryRunPayload(o) ==
  extraJson(o)
  @@ [summary |-> [total |-> Len(o.threadIds),
                   successCount |-> Len(o.threadIds),
                   failCount |-> 0],
      results |-> DryRunResults(o.threadIds)]

DryRunConsole(o) ==
  [i \in 1..Len(o.threadIds) |->
     Line("info", <<"[dry-run] Would", dryRunVerb(o), o.threadIds[i]>>)]

\* mutant: the newest result is put in front of the list
RecordItem_Prepend(threadId, success, sc, fc, res) ==
  IF success
  THEN [successCount |-> sc + 1, failCount |-> fc,
        results |-> <<[threadId |-> threadId, success |-> TRUE]>> \o res]
  ELSE [successCount |-> sc, failCount |-> fc + 1,
        results |-> <<[threadId |-> threadId, success |-> FALSE, error |-> "error"]>> \o res]

\* mutant: a failed item is counted but its result is not kept
RecordItem_DropFailed(threadId, success, sc, fc, res) ==
  IF success
  THEN [successCount |-> sc + 1, failCount |-> fc,
        results |-> Append(res, [threadId |-> threadId, success |-> TRUE])]
  ELSE [successCount |-> sc, failCount |-> fc + 1, results |-> res]

\* The loop body after config.run returned: count and push the result.
RecordItem(threadId, success, sc, fc, res) ==
  IF success
  THEN [successCount |-> sc + 1, failCount |-> fc,
        results |-> Append(res, [threadId |-> threadId, success |-> TRUE])]
  ELSE [successCount |-> sc, failCount |-> fc + 1,
        results |-> Append(res, [threadId |-> threadId, success |-> FALSE,
                                 error |-> "error"])]

BulkSummaryPayload(o, sc, fc, res) ==
  extraJson(o)
  @@ [summary |-> [total |-> Len(o.threadIds), successCount |-> sc, failCount |-> fc],
      results |-> res]

\* What config.run(conn, threadId) can do: resolve {success: true}, resolve
\* {success: false, error}, or reject (markAsRead awaits Runtime.evaluate
\* outside any try, so a channel error leaves it as an exception).
BulkItemOutcomes == {"ok", "fail", "throw"}

\* runThreadActionCommand up to its first await (with the argument checks of
\* the cmdX wrapper in front of it).
RunThreadActionCommand_Begin ==
  /\ pc = "cmd"
  /\ options.command \in BulkCommands
  /\ IF BulkValidationError(options) # <<>>
     THEN /\ console' = Append(console, Line("error", BulkValidationError(options)))
          /\ ProcessExit(1)
          /\ UNCHANGED <<stdoutJson, connectCalls>>
     ELSE IF options.dryRun
     THEN /\ console' = console \o DryRunConsole(options)
          /\ stdoutJson' = stdoutJson \o emitCommandJson(options, TRUE, DryRunPayload(options))
          /\ MainReturns(exitCode)
          /\ UNCHANGED connectCalls
     ELSE /\ connectCalls' = connectCalls + 1
          /\ pc' = "connecting"
          /\ UNCHANGED <<console, stdoutJson, status, exitStatus>>
  /\ UNCHANGED <<options, exitCode, conn, disconnectCalls, bulkVars, calls,
                 toolResult, accounts, composeVars, locatorVars, pageVars>>

\* mutant: config.run is started and the loop goes on without awaiting it
AfterRunStarted_NoAwait == "connected"

\* `await config.run(conn, threadId)`: the loop is suspended until the
\* action on this id has returned.
AfterRunStarted == "awaiting"

\* One turn of `for (const threadId of options.threadIds)` begins:
\* config.run is invoked on the id.
RunThreadActionCommand_Start ==
  /\ pc = "connected"
  /\ options.command \in BulkCommands
  /\ idx <= Len(options.threadIds)
  /\ executed' = Append(executed, options.threadIds[idx])
  /\ pc' = AfterRunStarted
  /\ UNCHANGED <<options, status, exitStatus, exitCode, conn, connectCalls,
                 disconnectCalls, idx, successCount, failCount, results,
                 calls, stdoutJson, console, toolResult, accounts,
                 composeVars, locatorVars, pageVars>>

\* config.run returns (or throws) and the turn's result is recorded.
RunThreadActionCommand_Item ==
  /\ pc = "awaiting"
  /\ options.command \in BulkCommands
  /\ LET threadId == options.threadIds[idx] IN
     /\ UNCHANGED executed
     /\ \E outcome \in BulkItemOutcomes :
          IF outcome = "throw"
          THEN /\ Fatal
               /\ UNCHANGED <<idx, successCount, failCount, results>>
          ELSE LET t == RecordItem(threadId, outcome = "ok", successCount,
                                   failCount, results) IN
               /\ successCount' = t.successCount
               /\ failCount' = t.failCount
               /\ results' = t.results
               /\ idx' = idx + 1
               /\ console' = Append(console,
                    Line(IF outcome = "ok" THEN "success" ELSE "error",
                         <<"item", threadId>>))
               /\ pc' = "connected"
               /\ UNCHANGED <<status, exitStatus>>
  /\ UNCHANGED <<options, exitCode, conn, connectCalls, disconnectCalls,
                 calls, stdoutJson, toolResult, accounts, composeVars, locatorVars, pageVars>>

\* mutant: the exit code is left alone when items failed
ExitCodeAfterBulk_Ignore(fc, code) == code

\* if (failCount > 0) process.exitCode = 1
ExitCodeAfterBulk(fc, code) == IF fc > 0 THEN 1 ELSE code

\* After the loop: summary line, exit code, JSON report, disconnect; main
\* then returns and the process ends with process.exitCode.
RunThreadActionCommand_Finish ==
  /\ pc = "connected"
  /\ options.command \in BulkCommands
  /\ idx > Len(options.threadIds)
  /\ console' = (IF Len(options.threadIds) > 1 /\ ~options.json
                 THEN Append(console, Line("log", <<"summary">>))
                 ELSE console)
  /\ exitCode' = ExitCodeAfterBulk(failCount, exitCode)
  /\ stdoutJson' = stdoutJson \o
       emitCommandJson(options, failCount = 0,
                       BulkSummaryPayload(options, successCount, failCount, results))
  /\ conn' = "closed"
  /\ disconnectCalls' = disconnectCalls + 1
  /\ MainReturns(ExitCodeAfterBulk(failCount, exitCode))
  /\ UNCHANGED <<options, connectCalls, bulkVars, calls, toolResult, accounts,
                 composeVars, locatorVars, pageVars>>

\* ------------------------------------------------------ composition flows
Call(op, arg, result) == [op |-> op, arg |-> arg, result |-> result]

\* What a gateway call can do: return a truthy value, return false / null,
\* or reject (Runtime.evaluate is awaited outside any try).
GatewayOutcomes == {"ok", "fail", "throw"}

\* A compose form that has just been opened.
NoDraft == [to |-> <<>>, subject |-> "", body |-> <<>>]

\* textToHtml: plain text is escaped and wrapped in paragraphs; the html is
\* kept as the list of its pieces, empty for no body.
textToHtml(text) == IF text = "" THEN <<>> ELSE <<"<p>", text, "</p>">>

\* mutant: a failed field set resets the draft
DraftAfter_Rollback(d, op, arg, outcome) ==
  IF outcome # "ok" THEN NoDraft
  ELSE CASE op = "addRecipient" -> [d EXCEPT !.to = Append(@, arg)]
         [] op = "setSubject" -> [d EXCEPT !.subject = arg]
         [] op = "setBody" -> [d EXCEPT !.body = textToHtml(arg)]
         [] OTHER -> d

\* What the target's draft holds after a field set with the given outcome:
\* the in-page code returns false before it touches the draft.
DraftAfter(d, op, arg, outcome) ==
  IF outcome # "ok" THEN d
  ELSE CASE op = "addRecipient" -> [d EXCEPT !.to = Append(@, arg)]
         [] op = "setSubject" -> [d EXCEPT !.subject = arg]
         [] op = "setBody" -> [d EXCEPT !.body = textToHtml(arg)]
         [] OTHER -> d

AfterBody(o) == IF o.command = "send" THEN "send" ELSE "state"
AfterSubject(o) == IF o.body # "" THEN "body" ELSE AfterBody(o)
AfterRecipients(o) == IF o.subject # "" THEN "subject" ELSE AfterSubject(o)

\* cmdCompose / cmdSend up to checkConnection.
Compose_Begin ==
  /\ pc = "cmd"
  /\ options.command \in ComposeCommands
  /\ IF Len(options.to) = 0
     THEN /\ console' = Append(console, Line("error", <<"At least one recipient is required (--to)">>))
          /\ ProcessExit(1)
          /\ UNCHANGED connectCalls
     ELSE /\ connectCalls' = connectCalls + 1
          /\ pc' = "connecting"
          /\ UNCHANGED <<console, status, exitStatus>>
  /\ UNCHANGED <<options, exitCode, conn, disconnectCalls, bulkVars, calls,
                 stdoutJson, toolResult, accounts, composeVars, locatorVars, pageVars>>

\* const draftKey = await openCompose(conn); if (!draftKey) {error;
\* disconnect; process.exit(1)}
Compose_Open ==
  /\ pc = "connected"
  /\ options.command \in ComposeCommands
  /\ \E outcome \in GatewayOutcomes :
       /\ calls' = Append(calls, Call("openCompose", "", outcome))
       /\ CASE outcome = "ok" ->
                 /\ draftKey' = "draft1"
                 /\ idx' = 1
                 /\ pc' = "recipients"
                 /\ UNCHANGED <<console, conn, disconnectCalls, status, exitStatus>>
            [] outcome = "fail" ->
                 /\ console' = Append(console, Line("error", <<"Failed to open compose window">>))
                 /\ conn' = "closed"
                 /\ disconnectCalls' = disconnectCalls + 1
                 /\ ProcessExit(1)
                 /\ UNCHANGED <<draftKey, idx>>
            [] outcome = "throw" ->
                 /\ Fatal
                 /\ UNCHANGED <<draftKey, idx, conn, disconnectCalls>>
  /\ UNCHANGED <<options, exitCode, connectCalls, successCount, failCount,
                 results, executed, stdoutJson, toolResult, accounts,
                 recipientResults, subjectSet, bodySet, draftState, draft,
                 locatorVars, pageVars>>

\* One turn of `for (const email of options.to)`: cmdCompose keeps the
\* outcome in recipientResults, cmdSend drops it.
Compose_AddRecipient ==
  /\ pc = "recipients"
  /\ idx <= Len(options.to)
  /\ LET email == options.to[idx] IN
     \E outcome \in GatewayOutcomes :
       /\ calls' = Append(calls, Call("addRecipient", email, outcome))
       /\ draft' = DraftAfter(draft, "addRecipient", email, outcome)
       /\ IF outcome = "throw"
          THEN /\ Fatal
               /\ UNCHANGED <<idx, recipientResults>>
          ELSE /\ recipientResults' =
                    (IF options.command = "send" THEN recipientResults
                     ELSE Append(recipientResults,
                                 [email |-> email, success |-> (outcome = "ok")]))
               /\ idx' = idx + 1
               /\ pc' = (IF idx = Len(options.to) THEN AfterRecipients(options)
                         ELSE "recipients")
               /\ console' = (IF options.command = "send" THEN console
                              ELSE Append(console,
                                     Line(IF outcome = "ok" THEN "success" ELSE "error",
                                          <<"recipient", email>>)))
               /\ UNCHANGED <<status, exitStatus>>
  /\ UNCHANGED <<options, exitCode, conn, connectCalls, disconnectCalls,
                 successCount, failCount, results, executed, stdoutJson,
                 toolResult, accounts, subjectSet, bodySet, draftKey,
                 draftState, locatorVars, pageVars>>

\* if (options.subject) subjectSet = await setSubject(conn, options.subject)
Compose_SetSubject ==
  /\ pc = "subject"
  /\ \E outcome \in GatewayOutcomes :
       /\ calls' = Append(calls, Call("setSubject", options.subject, outcome))
       /\ draft' = DraftAfter(draft, "setSubject", options.subject, outcome)
       /\ IF outcome = "throw"
          THEN /\ Fatal
               /\ UNCHANGED subjectSet
          ELSE /\ subjectSet' = (IF options.command = "send" THEN subjectSet
                                 ELSE outcome = "ok")
               /\ pc' = AfterSubject(options)
               /\ console' = (IF options.command = "send" THEN console
                              ELSE Append(console,
                                     Line(IF outcome = "ok" THEN "success" ELSE "error",
                                          <<"subject">>)))
               /\ UNCHANGED <<status, exitStatus>>
  /\ UNCHANGED <<options, exitCode, conn, connectCalls, disconnectCalls,
                 bulkVars, stdoutJson, toolResult, accounts, recipientResults,
                 bodySet, draftKey, draftState, locatorVars, pageVars>>

\* if (bodyContent) bodySet = await setBody(conn, textToHtml(bodyContent))
Compose_SetBody ==
  /\ pc = "body"
  /\ \E outcome \in GatewayOutcomes :
       /\ calls' = Append(calls, Call("setBody", options.body, outcome))
       /\ draft' = DraftAfter(draft, "setBody", options.body, outcome)
       /\ IF outcome = "throw"
          THEN /\ Fatal
               /\ UNCHANGED bodySet
          ELSE /\ bodySet' = (IF options.command = "send" THEN bodySet
                              ELSE outcome = "ok")
               /\ pc' = AfterBody(options)
               /\ console' = (IF options.command = "send" THEN console
                              ELSE Append(console,
                                     Line(IF outcome = "ok" THEN "success" ELSE "error",
                                          <<"body">>)))
               /\ UNCHANGED <<status, exitStatus>>
  /\ UNCHANGED <<options, exitCode, conn, connectCalls, disconnectCalls,
                 bulkVars, stdoutJson, toolResult, accounts, recipientResults,
                 subjectSet, draftKey, draftState, locatorVars, pageVars>>

\* const ok = failedRecipients.length === 0 && subjectSet && bodySet
ComposeOk(rr, ss, bs) ==
  /\ \A i \in 1..Len(rr) : rr[i].success
  /\ ss
  /\ bs

\* The tail of cmdCompose from getDraftState on: report, exit code,
\* disconnect, return state.  For `compose` main then returns; for `draft`
\* cmdDraft exits with 1 on a null state and reconnects otherwise.
Compose_GetDraftState ==
  /\ pc = "state"
  /\ \E outcome \in GatewayOutcomes :
       /\ calls' = Append(calls, Call("getDraftState", "", outcome))
       /\ IF outcome = "throw"
          THEN /\ Fatal
               /\ UNCHANGED <<draftState, stdoutJson, exitCode, conn,
                              disconnectCalls, connectCalls>>
          ELSE LET ok == ComposeOk(recipientResults, subjectSet, bodySet)
                   code == IF ~ok THEN 1 ELSE exitCode
               IN
               /\ draftState' = (IF outcome = "ok" THEN "state" ELSE "null")
               /\ stdoutJson' =
                    (IF options.command = "compose"
                     THEN stdoutJson \o
                            emitCommandJson(options, ok,
                              [draftId |-> draftKey, recipients |-> recipientResults,
                               subjectSet |-> subjectSet, bodySet |-> bodySet,
                               keepOpen |-> TRUE])
                     ELSE stdoutJson)
               /\ exitCode' = code
               /\ conn' = "closed"
               /\ disconnectCalls' = disconnectCalls + 1
               /\ console' = console
               /\ IF options.command = "compose"
                  THEN MainReturns(code) /\ UNCHANGED connectCalls
                  ELSE IF outcome # "ok"
                  THEN ProcessExit(1) /\ UNCHANGED connectCalls
                  ELSE /\ connectCalls' = connectCalls + 1
                       /\ pc' = "reconnecting"
                       /\ UNCHANGED <<status, exitStatus>>
  /\ UNCHANGED <<options, bulkVars, toolResult, accounts, recipientResults,
                 subjectSet, bodySet, draftKey, draft, locatorVars, pageVars>>

\* The tail of cmdDraft: saveDraft on the second session, exit code, report,
\* disconnect.
Draft_SaveDraft ==
  /\ pc = "reconnected"
  /\ options.command = "draft"
  /\ \E outcome \in GatewayOutcomes :
       /\ calls' = Append(calls, Call("saveDraft", "", outcome))
       /\ IF outcome = "throw"
          THEN /\ Fatal
               /\ UNCHANGED <<stdoutJson, exitCode, conn, disconnectCalls>>
          ELSE LET saved == (outcome = "ok")
                   code == IF ~saved THEN 1 ELSE exitCode
               IN
               /\ console' = Append(console,
                    Line(IF saved THEN "success" ELSE "error", <<"save">>))
               /\ exitCode' = code
               /\ stdoutJson' = stdoutJson \o
                    emitCommandJson(options, saved,
                                    [draftId |-> "draft1", saved |-> saved])
               /\ conn' = "closed"
               /\ disconnectCalls' = disconnectCalls + 1
               /\ MainReturns(code)
  /\ UNCHANGED <<options, connectCalls, bulkVars, toolResult, accounts,
                 composeVars, locatorVars, pageVars>>

\* The tail of cmdSend: sendDraft, exit code, report, disconnect.
Send_SendDraft ==
  /\ pc = "send"
  /\ options.command = "send"
  /\ \E outcome \in GatewayOutcomes :
       /\ calls' = Append(calls, Call("sendDraft", "", outcome))
       /\ IF outcome = "throw"
          THEN /\ Fatal
               /\ UNCHANGED <<stdoutJson, exitCode, conn, disconnectCalls>>
          ELSE LET sent == (outcome = "ok")
                   code == IF ~sent THEN 1 ELSE exitCode
               IN
               /\ console' = Append(console,
                    Line(IF sent THEN "success" ELSE "error", <<"send">>))
               /\ exitCode' = code
               /\ stdoutJson' = stdoutJson \o
                    emitCommandJson(options, sent,
                                    [sent |-> sent, draftId |-> draftKey,
                                     to |-> options.to])
               /\ conn' = "closed"
               /\ disconnectCalls' = disconnectCalls + 1
               /\ MainReturns(code)
  /\ UNCHANGED <<options, connectCalls, bulkVars, toolResult, accounts,
                 composeVars, locatorVars, pageVars>>

\* ------------------------------------------------- reply and forward flows
ReplyOpenOp(command) ==
  CASE command = "reply" -> "openReplyCompose"
    [] command = "reply-all" -> "openReplyAllCompose"
    [] command = "forward" -> "openForwardCompose"

\* The draft the native reply / forward command sets up: recipients and
\* subject are filled in by the target (a forward has no recipient yet).
ReplyDraft(command) ==
  [to |-> (IF command = "forward" THEN <<>> ELSE <<"sender@x.com">>),
   subject |-> (IF command = "forward" THEN "Fwd" ELSE "Re"),
   body |-> <<>>]

\* mutant: a null draft key is not looked at
ReplyAfterOpen_IgnoreNull(o, outcome) ==
  IF o.command = "forward" THEN "r_recipient" ELSE "r_body"

\* replyToThread / replyAllToThread always set the body; forwardThread adds
\* the recipient first and sets the body only when there is one.
ReplyAfterOpen(o, outcome) ==
  IF outcome # "ok" THEN "r_failed"
  ELSE IF o.command = "forward" THEN "r_recipient" ELSE "r_body"

ReplyAfterRecipient(o) == IF o.body # "" THEN "r_body" ELSE "r_complete"

\* mutant: a sent draft that has had no body set gets one afterwards
ReplyAfterComplete_BodyAfterSend(o, outcome) ==
  IF outcome # "ok" THEN "r_failed"
  ELSE IF o.send /\ \A i \in 1..Len(calls) : calls[i].op # "setBody"
  THEN "r_body"
  ELSE "r_succeeded"

\* completeDraft returns to the command, which only reports.
ReplyAfterComplete(o, outcome) ==
  IF outcome # "ok" THEN "r_failed" ELSE "r_succeeded"

\* cmdReply / cmdReplyAll / cmdForward up to checkConnection.
Reply_Begin ==
  /\ pc = "cmd"
  /\ options.command \in ReplyCommands
  /\ IF options.threadId = ""
     THEN /\ console' = Append(console, Line("error", <<"Thread ID is required">>))
          /\ ProcessExit(1)
          /\ UNCHANGED connectCalls
     ELSE IF options.command = "forward" /\ Len(options.to) = 0
     THEN /\ console' = Append(console, Line("error", <<"Recipient is required (--to)">>))
          /\ ProcessExit(1)
          /\ UNCHANGED connectCalls
     ELSE /\ connectCalls' = connectCalls + 1
          /\ pc' = "connecting"
          /\ UNCHANGED <<console, status, exitStatus>>
  /\ UNCHANGED <<options, exitCode, conn, disconnectCalls, bulkVars, calls,
                 stdoutJson, toolResult, accounts, composeVars, locatorVars, pageVars>>

\* const draftKey = await open...Compose(conn, threadId);
\* if (!draftKey) return {success: false}
Reply_Open ==
  /\ pc = "connected"
  /\ options.command \in ReplyCommands
  /\ \E outcome \in GatewayOutcomes :
       /\ calls' = Append(calls, Call(ReplyOpenOp(options.command),
                                      options.threadId, outcome))
       /\ CASE outcome = "ok" ->
                 /\ draftKey' = "draft1"
                 /\ draft' = ReplyDraft(options.command)
                 /\ pc' = ReplyAfterOpen(options, outcome)
                 /\ UNCHANGED <<console, status, exitStatus>>
            [] outcome = "fail" ->
                 /\ pc' = ReplyAfterOpen(options, outcome)
                 /\ UNCHANGED <<draftKey, draft, console, status, exitStatus>>
            [] outcome = "throw" ->
                 /\ Fatal
                 /\ UNCHANGED <<draftKey, draft>>
  /\ UNCHANGED <<options, exitCode, conn, connectCalls, disconnectCalls,
                 bulkVars, stdoutJson, toolResult, accounts, recipientResults,
                 subjectSet, bodySet, draftState, locatorVars, pageVars>>

\* forwardThread: addRecipient(conn, toEmail) with toEmail = options.to[0];
\* false ends the flow with {success: false}.
Reply_AddRecipient ==
  /\ pc = "r_recipient"
  /\ \E outcome \in GatewayOutcomes :
       /\ calls' = Append(calls, Call("addRecipient", options.to[1], outcome))
       /\ draft' = DraftAfter(draft, "addRecipient", options.to[1], outcome)
       /\ CASE outcome = "ok" ->
                 /\ pc' = ReplyAfterRecipient(options)
                 /\ UNCHANGED <<console, status, exitStatus>>
            [] outcome = "fail" ->
                 /\ pc' = "r_failed"
                 /\ UNCHANGED <<console, status, exitStatus>>
            [] outcome = "throw" -> Fatal
  /\ UNCHANGED <<options, exitCode, conn, connectCalls, disconnectCalls,
                 bulkVars, stdoutJson, toolResult, accounts, recipientResults,
                 subjectSet, bodySet, draftKey, draftState, locatorVars, pageVars>>

\* mutant: the draft is completed whether or not the body was set
ReplyAfterBody_IgnoreFailure(outcome) == "r_complete"

\* if (!bodySet) return {success: false}; else completeDraft
ReplyAfterBody(outcome) == IF outcome = "ok" THEN "r_complete" ELSE "r_failed"

\* const bodySet = await setBody(conn, textToHtml(body));
\* if (!bodySet) return {success: false}
Reply_SetBody ==
  /\ pc = "r_body"
  /\ \E outcome \in GatewayOutcomes :
       /\ calls' = Append(calls, Call("setBody", options.body, outcome))
       /\ draft' = DraftAfter(draft, "setBody", options.body, outcome)
       /\ IF outcome = "throw"
          THEN Fatal
          ELSE /\ pc' = ReplyAfterBody(outcome)
               /\ UNCHANGED <<console, status, exitStatus>>
  /\ UNCHANGED <<options, exitCode, conn, connectCalls, disconnectCalls,
                 bulkVars, stdoutJson, toolResult, accounts, recipientResults,
                 subjectSet, bodySet, draftKey, draftState, locatorVars, pageVars>>

\* completeDraft: sendDraft when send is set, saveDraft otherwise; the
\* boolean it gets is the result's success.
Reply_CompleteDraft ==
  /\ pc = "r_complete"
  /\ \E outcome \in GatewayOutcomes :
       /\ calls' = Append(calls,
            Call(IF options.send THEN "sendDraft" ELSE "saveDraft", "", outcome))
       /\ IF outcome = "throw"
          THEN Fatal
          ELSE /\ pc' = ReplyAfterComplete(options, outcome)
               /\ UNCHANGED <<console, status, exitStatus>>
  /\ UNCHANGED <<options, exitCode, conn, connectCalls, disconnectCalls,
                 bulkVars, stdoutJson, toolResult, accounts, composeVars,
                 locatorVars, pageVars>>

\* The ReplyResult the flow returned: draftId only from a save that was
\* reached (undefined fields are left out of the JSON).
ReplyResult(o, p, key) ==
  [success |-> (p = "r_succeeded")]
  @@ (IF ~o.send /\ calls # <<>> /\ calls[Len(calls)].op = "saveDraft"
      THEN [draftId |-> key] ELSE EmptyRecord)

\* The tail of cmdReply / cmdReplyAll / cmdForward: message, exit code,
\* report, disconnect.
Reply_Report ==
  /\ pc \in {"r_succeeded", "r_failed"}
  /\ LET result == ReplyResult(options, pc, draftKey)
         code == IF ~result.success THEN 1 ELSE exitCode
     IN
     /\ console' = Append(console,
          Line(IF result.success THEN "success" ELSE "error",
               <<IF ~result.success THEN "Failed to create"
                 ELSE IF options.send THEN "sent" ELSE "Draft saved">>))
     /\ exitCode' = code
     /\ stdoutJson' = stdoutJson \o
          emitCommandJson(options, result.success,
            result @@ [threadId |-> options.threadId, sent |-> options.send]
                   @@ (IF options.command = "forward"
                       THEN [to |-> options.to[1]] ELSE EmptyRecord))
     /\ conn' = "closed"
     /\ disconnectCalls' = disconnectCalls + 1
     /\ MainReturns(code)
  /\ UNCHANGED <<options, connectCalls, bulkVars, calls, toolResult, accounts,
                 composeVars, locatorVars, pageVars>>

\* -------------------------------------------------------- calendar listing
AccountEmail == <<"u1@x.com", "u2@x.com", "u3@x.com", "u4@x.com">>

\* listAccounts(): n accounts, the c-th current (c = 0: none marked current).
AccountList(n, c) ==
  [i \in 1..n |-> [email |-> AccountEmail[i], isCurrent |-> (i = c)]]

\* accounts.find(a => a.isCurrent)?.email, "" for undefined
originalAccount(accs) ==
  IF \E i \in 1..Len(accs) : accs[i].isCurrent
  THEN accs[CHOOSE i \in 1..Len(accs) :
              accs[i].isCurrent /\ \A j \in 1..(i - 1) : ~accs[j].isCurrent].email
  ELSE ""

\* parseCalendarDate returns a Date: "today", "tomorrow" or a string
\* new Date() can parse; it throws on anything else.
ValidCalendarDate(s) == s \in {"today", "tomorrow", "2026-02-05"}

Calendar_Begin ==
  /\ pc = "cmd"
  /\ options.command = "calendar"
  /\ connectCalls' = connectCalls + 1
  /\ pc' = "connecting"
  /\ UNCHANGED <<options, status, exitStatus, exitCode, conn, disconnectCalls,
                 bulkVars, calls, stdoutJson, console, toolResult, accounts,
                 composeVars, locatorVars, pageVars>>

\* After the connection: the date range is parsed; parseCalendarDate throws
\* on an invalid --date, and nothing in cmdCalendar catches it.
Calendar_ParseDate ==
  /\ pc = "connected"
  /\ options.command = "calendar"
  /\ IF options.calendarDate # "" /\ ~ValidCalendarDate(options.calendarDate)
     THEN Fatal
     ELSE /\ pc' = (IF options.allAccounts THEN "listAccounts" ELSE "listEvents")
          /\ UNCHANGED <<console, status, exitStatus>>
  /\ UNCHANGED <<options, exitCode, conn, connectCalls, disconnectCalls,
                 bulkVars, calls, stdoutJson, toolResult, accounts,
                 composeVars, locatorVars, pageVars>>

AfterAccountsLoop(accs) ==
  IF originalAccount(accs) # "" THEN "restore" ELSE "cal_disconnect"

\* const accounts = await listAccounts(conn)
Calendar_ListAccounts ==
  /\ pc = "listAccounts"
  /\ \/ \E n \in 0..MaxAccounts : \E c \in 0..n :
          /\ accounts' = AccountList(n, c)
          /\ calls' = Append(calls, Call("listAccounts", "", "ok"))
          /\ idx' = 1
          /\ pc' = (IF n = 0 THEN AfterAccountsLoop(AccountList(n, c)) ELSE "switch")
          /\ UNCHANGED <<console, status, exitStatus>>
     \/ /\ calls' = Append(calls, Call("listAccounts", "", "throw"))
        /\ Fatal
        /\ UNCHANGED <<accounts, idx>>
  /\ UNCHANGED <<options, exitCode, conn, connectCalls, disconnectCalls,
                 successCount, failCount, results, executed, stdoutJson,
                 toolResult, composeVars, locatorVars, pageVars>>

\* mutant: the events are read straight after the switch
AfterSwitchAccount_NoDelay == "listEvents"

\* the switch is followed by `await new Promise(r => setTimeout(r, 300))`
AfterSwitchAccount == "delay"

\* await switchAccount(conn, account.email): the result is not looked at.
Calendar_SwitchAccount ==
  /\ pc = "switch"
  /\ \E outcome \in GatewayOutcomes :
       /\ calls' = Append(calls, Call("switchAccount", accounts[idx].email, outcome))
       /\ IF outcome = "throw"
          THEN Fatal
          ELSE /\ pc' = AfterSwitchAccount
               /\ UNCHANGED <<console, status, exitStatus>>
  /\ UNCHANGED <<options, exitCode, conn, connectCalls, disconnectCalls,
                 bulkVars, stdoutJson, toolResult, accounts, composeVars,
                 locatorVars, pageVars>>

\* await new Promise(r => setTimeout(r, 300))
Calendar_Delay ==
  /\ pc = "delay"
  /\ calls' = Append(calls, Call("delay", accounts[idx].email, "ok"))
  /\ pc' = "listEvents"
  /\ UNCHANGED <<options, status, exitStatus, exitCode, conn, connectCalls,
                 disconnectCalls, bulkVars, stdoutJson, console, toolResult,
                 accounts, composeVars, locatorVars, pageVars>>

\* const events = await listEvents(conn, {timeMin, timeMax})
Calendar_ListEvents ==
  /\ pc = "listEvents"
  /\ \E outcome \in {"ok", "throw"} :
       /\ calls' = Append(calls,
            Call("listEvents",
                 IF options.allAccounts THEN accounts[idx].email ELSE "", outcome))
       /\ IF outcome = "throw"
          THEN /\ Fatal
               /\ UNCHANGED idx
          ELSE /\ idx' = (IF options.allAccounts THEN idx + 1 ELSE idx)
               /\ pc' = (IF ~options.allAccounts THEN "cal_disconnect"
                         ELSE IF idx < Len(accounts) THEN "switch"
                         ELSE AfterAccountsLoop(accounts))
               /\ UNCHANGED <<console, status, exitStatus>>
  /\ UNCHANGED <<options, exitCode, conn, connectCalls, disconnectCalls,
                 successCount, failCount, results, executed, stdoutJson,
                 toolResult, accounts, composeVars, locatorVars, pageVars>>

\* if (originalAccount) await switchAccount(conn, originalAccount)
Calendar_Restore ==
  /\ pc = "restore"
  /\ \E outcome \in GatewayOutcomes :
       /\ calls' = Append(calls, Call("switchAccount", originalAccount(accounts), outcome))
       /\ IF outcome = "throw"
          THEN Fatal
          ELSE /\ pc' = "cal_disconnect"
               /\ UNCHANGED <<console, status, exitStatus>>
  /\ UNCHANGED <<options, exitCode, conn, connectCalls, disconnectCalls,
                 bulkVars, stdoutJson, toolResult, accounts, composeVars,
                 locatorVars, pageVars>>

\* The events are printed, then await disconnect(conn); main returns.
Calendar_Finish ==
  /\ pc = "cal_disconnect"
  /\ conn' = "closed"
  /\ disconnectCalls' = disconnectCalls + 1
  /\ MainReturns(exitCode)
  /\ UNCHANGED <<options, exitCode, connectCalls, bulkVars, calls, stdoutJson,
                 console, toolResult, accounts, composeVars, locatorVars, pageVars>>

\* ---------------------------------------------------------- account switch
\* options.accountArg.match(/^\d+$/) and parseInt(accountArg, 10)
Digits == <<"0", "1", "2", "3", "4", "5", "6", "7", "8", "9">>

IsIndexArg(arg) == \E d \in 1..Len(Digits) : Digits[d] = arg

parseInt(arg) == (CHOOSE d \in 1..Len(Digits) : Digits[d] = arg) - 1

\* String.prototype.toLowerCase on the addresses in play
toLowerCase(str) ==
  CASE str = "U1@X.COM" -> "u1@x.com"
    [] str = "U2@X.COM" -> "u2@x.com"
    [] OTHER -> str

\* The target email cmdAccount resolves, "" when the index is out of range
\* or no account has that address.
AccountTarget(arg, accs) ==
  IF IsIndexArg(arg)
  THEN IF parseInt(arg) < 1 \/ parseInt(arg) > Len(accs) THEN ""
       ELSE accs[parseInt(arg)].email
  ELSE IF \E i \in 1..Len(accs) : toLowerCase(accs[i].email) = toLowerCase(arg)
  THEN accs[CHOOSE i \in 1..Len(accs) :
              /\ toLowerCase(accs[i].email) = toLowerCase(arg)
              /\ \A j \in 1..(i - 1) :
                    toLowerCase(accs[j].email) # toLowerCase(arg)].email
  ELSE ""

AccountTargetError(arg) ==
  IF IsIndexArg(arg) THEN <<"Invalid account index", arg>>
  ELSE <<"Account not found", arg>>

\* mutant: the switch is issued whatever the current account is
AlreadyOnAccount_Never(accs, targetEmail) == FALSE

\* currentAccount && currentAccount.email === targetEmail
AlreadyOnAccount(accs, targetEmail) ==
  /\ originalAccount(accs) # ""
  /\ originalAccount(accs) = targetEmail

\* if (!options.accountArg) { error; usage; process.exit(1) }, then
\* checkConnection
Account_Begin ==
  /\ pc = "cmd"
  /\ options.command = "account"
  /\ IF options.accountArg = ""
     THEN /\ console' = Append(console,
                 Line("error", <<"Account index or email is required">>))
          /\ ProcessExit(1)
          /\ UNCHANGED connectCalls
     ELSE /\ connectCalls' = connectCalls + 1
          /\ pc' = "connecting"
          /\ UNCHANGED <<console, status, exitStatus>>
  /\ UNCHANGED <<options, exitCode, conn, disconnectCalls, bulkVars, calls,
                 stdoutJson, toolResult, accounts, composeVars, locatorVars,
                 pageVars>>

\* listAccounts, the target is resolved (error, disconnect, exit 1 when it
\* cannot be), and the command ends here without a switch when the target
\* is the current account.
Account_ListAccounts ==
  /\ pc = "connected"
  /\ options.command = "account"
  /\ \/ \E n \in 0..MaxAccounts : \E c \in 0..n :
          LET accs == AccountList(n, c)
              targetEmail == AccountTarget(options.accountArg, accs)
          IN
          /\ accounts' = accs
          /\ calls' = Append(calls, Call("listAccounts", "", "ok"))
          /\ CASE targetEmail = "" ->
                    /\ console' = Append(console,
                          Line("error", AccountTargetError(options.accountArg)))
                    /\ conn' = "closed"
                    /\ disconnectCalls' = disconnectCalls + 1
                    /\ ProcessExit(1)
                    /\ UNCHANGED stdoutJson
               [] targetEmail # "" /\ AlreadyOnAccount(accs, targetEmail) ->
                    /\ console' = Append(console,
                          Line("info", <<"Already on account", targetEmail>>))
                    /\ stdoutJson' = stdoutJson \o
                          emitCommandJson(options, TRUE,
                            [switched |-> FALSE, currentAccount |-> targetEmail])
                    /\ conn' = "closed"
                    /\ disconnectCalls' = disconnectCalls + 1
                    /\ MainReturns(exitCode)
               [] OTHER ->
                    /\ pc' = "acc_switch"
                    /\ UNCHANGED <<console, stdoutJson, conn, disconnectCalls,
                                   status, exitStatus>>
     \/ /\ calls' = Append(calls, Call("listAccounts", "", "throw"))
        /\ Fatal
        /\ UNCHANGED <<accounts, stdoutJson, conn, disconnectCalls>>
  /\ UNCHANGED <<options, exitCode, connectCalls, idx, successCount,
                 failCount, results, executed, toolResult, composeVars,
                 locatorVars, pageVars>>

\* const result = await switchAccount(conn, targetEmail); the outcome is
\* reported, process.exitCode = 1 on failure, then disconnect.
Account_Switch ==
  /\ pc = "acc_switch"
  /\ LET targetEmail == AccountTarget(options.accountArg, accounts) IN
     \E outcome \in GatewayOutcomes :
       /\ calls' = Append(calls, Call("switchAccount", targetEmail, outcome))
       /\ CASE outcome = "throw" ->
                 /\ Fatal
                 /\ UNCHANGED <<stdoutJson, conn, disconnectCalls, exitCode>>
            [] outcome = "ok" ->
                 /\ console' = Append(console,
                       Line("success", <<"Switched to", targetEmail>>))
                 /\ stdoutJson' = stdoutJson \o
                       emitCommandJson(options, TRUE,
                         [requestedAccount |-> targetEmail,
                          currentAccount |-> targetEmail, switched |-> TRUE])
                 /\ conn' = "closed"
                 /\ disconnectCalls' = disconnectCalls + 1
                 /\ MainReturns(exitCode)
                 /\ UNCHANGED exitCode
            [] outcome = "fail" ->
                 /\ console' = Append(console,
                       Line("error", <<"Failed to switch to", targetEmail>>))
                 /\ stdoutJson' = stdoutJson \o
                       emitCommandJson(options, FALSE,
                         [requestedAccount |-> targetEmail,
                          currentAccount |-> originalAccount(accounts),
                          switched |-> FALSE])
                 /\ conn' = "closed"
                 /\ disconnectCalls' = disconnectCalls + 1
                 /\ exitCode' = 1
                 /\ MainReturns(1)
  /\ UNCHANGED <<options, connectCalls, bulkVars, toolResult, accounts,
                 composeVars, locatorVars, pageVars>>

\* ---------------------------------------------------- MCP draft handler
\* catch: the handler returns an isError result; finally: if (conn) await
\* disconnect(conn).
HandlerCatch ==
  /\ toolResult' = [isError |-> TRUE]
  /\ status' = "returned"
  /\ pc' = "done"

\* conn = await connectToSuperhuman(CDP_PORT); null is turned into a throw,
\* caught below with conn still null.
DraftHandler_Connect ==
  /\ pc = "handler"
  /\ connectCalls' = connectCalls + 1
  /\ \E outcome \in GatewayOutcomes :
       IF outcome = "ok"
       THEN /\ conn' = "open"
            /\ pc' = "mcp_open"
            /\ UNCHANGED <<toolResult, status>>
       ELSE /\ HandlerCatch
            /\ UNCHANGED conn
  /\ UNCHANGED <<options, exitStatus, exitCode, disconnectCalls, bulkVars,
                 calls, stdoutJson, console, accounts, composeVars, locatorVars, pageVars>>

\* const draftKey = await openCompose(conn); if (!draftKey) throw
DraftHandler_Open ==
  /\ pc = "mcp_open"
  /\ \E outcome \in GatewayOutcomes :
       /\ calls' = Append(calls, Call("openCompose", "", outcome))
       /\ IF outcome = "ok"
          THEN /\ draftKey' = "draft1"
               /\ pc' = "mcp_recipient"
               /\ UNCHANGED <<toolResult, status, conn, disconnectCalls>>
          ELSE /\ HandlerCatch
               /\ conn' = "closed"
               /\ disconnectCalls' = disconnectCalls + 1
               /\ UNCHANGED draftKey
  /\ UNCHANGED <<options, exitStatus, exitCode, connectCalls, bulkVars,
                 stdoutJson, console, accounts, recipientResults, subjectSet,
                 bodySet, draftState, draft, locatorVars, pageVars>>

McpAfterBody(o) == IF o.command = "superhuman_send" THEN "mcp_send" ELSE "mcp_save"
McpAfterSubject(o) == IF o.body # "" THEN "mcp_body" ELSE McpAfterBody(o)
McpAfterRecipient(o) == IF o.subject # "" THEN "mcp_subject" ELSE McpAfterSubject(o)

McpStepOp(p) ==
  CASE p = "mcp_recipient" -> "addRecipient"
    [] p = "mcp_subject" -> "setSubject"
    [] p = "mcp_body" -> "setBody"
    [] p = "mcp_save" -> "saveDraft"

McpStepNext(p, o) ==
  CASE p = "mcp_recipient" -> McpAfterRecipient(o)
    [] p = "mcp_subject" -> McpAfterSubject(o)
    [] p = "mcp_body" -> McpAfterBody(o)
    [] p = "mcp_save" -> "mcp_state"

McpStepArg(p, o) ==
  CASE p = "mcp_recipient" -> o.to[1]
    [] p = "mcp_subject" -> o.subject
    [] p = "mcp_body" -> o.body
    [] p = "mcp_save" -> ""

\* await addRecipient / setSubject / setBody / saveDraft: the boolean each
\* returns is not looked at; a rejection goes to catch.
DraftHandler_Populate ==
  /\ pc \in {"mcp_recipient", "mcp_subject", "mcp_body", "mcp_save"}
  /\ \E outcome \in GatewayOutcomes :
       /\ calls' = Append(calls, Call(McpStepOp(pc), McpStepArg(pc, options), outcome))
       /\ draft' = DraftAfter(draft, McpStepOp(pc), McpStepArg(pc, options), outcome)
       /\ IF outcome = "throw"
          THEN /\ HandlerCatch
               /\ conn' = "closed"
               /\ disconnectCalls' = disconnectCalls + 1
          ELSE /\ pc' = McpStepNext(pc, options)
               /\ UNCHANGED <<toolResult, status, conn, disconnectCalls>>
  /\ UNCHANGED <<options, exitStatus, exitCode, connectCalls, bulkVars,
                 stdoutJson, console, accounts, recipientResults, subjectSet,
                 bodySet, draftKey, draftState, locatorVars, pageVars>>

\* sendHandler: the evaluation that calls ctrl._sendDraft(); a result without
\* success is thrown, every path ends in finally with disconnect.
SendHandler_Send ==
  /\ pc = "mcp_send"
  /\ \E outcome \in GatewayOutcomes :
       /\ calls' = Append(calls, Call("sendDraft", "", outcome))
       /\ IF outcome = "ok"
          THEN /\ toolResult' = [isError |-> FALSE]
               /\ status' = "returned"
               /\ pc' = "done"
          ELSE HandlerCatch
       /\ conn' = "closed"
       /\ disconnectCalls' = disconnectCalls + 1
  /\ UNCHANGED <<options, exitStatus, exitCode, connectCalls, bulkVars,
                 stdoutJson, console, accounts, composeVars, locatorVars, pageVars>>

\* const state = await getDraftState(conn); return the success text.
DraftHandler_Finish ==
  /\ pc = "mcp_state"
  /\ \E outcome \in GatewayOutcomes :
       /\ calls' = Append(calls, Call("getDraftState", "", outcome))
       /\ IF outcome = "throw"
          THEN /\ HandlerCatch
               /\ UNCHANGED draftState
          ELSE /\ toolResult' = [isError |-> FALSE]
               /\ draftState' = (IF outcome = "ok" THEN "state" ELSE "null")
               /\ status' = "returned"
               /\ pc' = "done"
       /\ conn' = "closed"
       /\ disconnectCalls' = disconnectCalls + 1
  /\ UNCHANGED <<options, exitStatus, exitCode, connectCalls, bulkVars,
                 stdoutJson, console, accounts, recipientResults, subjectSet,
                 bodySet, draftKey, draft, locatorVars, pageVars>>

\* -------------------------------------------------------- session locator
Origin == "mail.superhuman.com"
UrlMarkers == {Origin, "background", "serviceworker"}
TargetTypes == {"page", "background_page", "service_worker"}

\* A target of CDP.List(): its url is modelled by the set of the marker
\* substrings it contains, so url.includes(s) is membership.
TargetSet == [url: SUBSET UrlMarkers, type: TargetTypes]

includes(url, s) == s \in url

\* mutant: background / service-worker urls are not excluded
IsMainPage_OriginOnly(t) ==
  /\ includes(t.url, Origin)
  /\ t.type = "page"

\* The predicate handed to targets.find
IsMainPage(t) ==
  /\ includes(t.url, Origin)
  /\ ~includes(t.url, "background")
  /\ ~includes(t.url, "serviceworker")
  /\ t.type = "page"

\* mutant: the last match is taken
FindMainPage_Last(ts) ==
  IF \E i \in 1..Len(ts) : IsMainPage(ts[i])
  THEN CHOOSE i \in 1..Len(ts) :
         IsMainPage(ts[i]) /\ \A j \in (i + 1)..Len(ts) : ~IsMainPage(ts[j])
  ELSE 0

\* targets.find(...): the position of the first match, 0 for undefined
FindMainPage(ts) ==
  IF \E i \in 1..Len(ts) : IsMainPage(ts[i])
  THEN CHOOSE i \in 1..Len(ts) :
         IsMainPage(ts[i]) /\ \A j \in 1..(i - 1) : ~IsMainPage(ts[j])
  ELSE 0

\* connectToSuperhuman: null and an error line when nothing matches, else a
\* client attached to mainPage.id.
ConnectToSuperhuman ==
  /\ pc = "locate"
  /\ connectCalls' = connectCalls + 1
  /\ LET mainPage == FindMainPage(targets) IN
     IF mainPage = 0
     THEN /\ console' = Append(console, Line("error", <<"Could not find Superhuman main page">>))
          /\ pc' = "done"
          /\ UNCHANGED <<client, conn>>
     ELSE /\ client' = mainPage
          /\ conn' = "open"
          /\ pc' = "located"
          /\ UNCHANGED console
  /\ UNCHANGED <<options, status, exitStatus, exitCode, disconnectCalls,
                 bulkVars, calls, stdoutJson, toolResult, accounts,
                 composeVars, targets, pageVars>>

\* disconnect(conn): await conn.client.close()
Disconnect ==
  /\ pc = "located"
  /\ conn = "open"
  /\ conn' = "closed"
  /\ disconnectCalls' = disconnectCalls + 1
  /\ pc' = "done"
  /\ UNCHANGED <<options, status, exitStatus, exitCode, connectCalls, bulkVars,
                 calls, stdoutJson, console, toolResult, accounts, composeVars,
                 locatorVars, pageVars>>

\* ------------------------------------- gateway calls against the compose form
\* window.ViewState._composeFormController is an object keyed by draft key;
\* Object.keys lists its keys in creation order.  A key is kept as
\* <<prefix, n>> so that startsWith can be told; <<>> stands for null.
NoKey == <<>>
startsWith(k, prefix) == k # NoKey /\ k[1] = prefix

ControllerMethods ==
  {"setSubject", "_updateDraft", "_saveDraftAsync", "_onAddAttachments",
   "onPasteFile", "addUploads"}

\* The sets of methods a controller of the target version may expose.
MethodSets ==
  {ControllerMethods, {}}
  \cup {ControllerMethods \ {m} : m \in {"setSubject", "_updateDraft", "_saveDraftAsync"}}
  \cup {{"onPasteFile"}, {"addUploads"}}

EvalKinds == {"value", "raise", "evalfail", "reject"}

SubjectSet == {"S", "S2"}
BodySet == {"<p>B</p>"}

\* ctrl.state.draft of a controller; hasFrom: draft.from.constructor exists.
NewDraft(k, hasFrom) ==
  [id |-> k, subject |-> "", body |-> "", to |-> <<>>, hasFrom |-> hasFrom,
   uploads |-> 0]

Controller(k, methods, hasDraft, hasFrom) ==
  [key |-> k, methods |-> methods, hasDraft |-> hasDraft,
   draft |-> NewDraft(k, hasFrom), saved |-> FALSE]

\* A compose form left open by an earlier flow.
StaleController ==
  [key |-> <<"draft", 0>>, methods |-> ControllerMethods, hasDraft |-> TRUE,
   draft |-> [id |-> <<"draft", 0>>, subject |-> "old", body |-> "<p>old</p>",
              to |-> <<"z@x.com">>, hasFrom |-> TRUE, uploads |-> 0],
   saved |-> TRUE]

OtherEntry ==
  [key |-> <<"other", 0>>, methods |-> {}, hasDraft |-> FALSE,
   draft |-> NewDraft(<<"other", 0>>, FALSE), saved |-> FALSE]

\* The position of the last draft key (used by a mutant below)
FindDraftKey_Last(cfc) ==
  IF \E i \in 1..Len(cfc) : startsWith(cfc[i].key, "draft")
  THEN CHOOSE i \in 1..Len(cfc) :
         /\ startsWith(cfc[i].key, "draft")
         /\ \A j \in (i + 1)..Len(cfc) : ~startsWith(cfc[j].key, "draft")
  ELSE 0

\* Object.keys(cfc).find(k => k.startsWith('draft')): the position of the
\* first draft key, 0 for undefined
FindDraftKey(cfc) ==
  IF \E i \in 1..Len(cfc) : startsWith(cfc[i].key, "draft")
  THEN CHOOSE i \in 1..Len(cfc) :
         /\ startsWith(cfc[i].key, "draft")
         /\ \A j \in 1..(i - 1) : ~startsWith(cfc[j].key, "draft")
  ELSE 0

\* What a call hands back: a value (with the key its lookup selected), or
\* an exception.
Returned(op, ok, key, value) ==
  [kind |-> "returned", op |-> op, ok |-> ok, key |-> key, value |-> value]
Thrown(op) == [kind |-> "thrown", op |-> op]

\* The in-page code of a draft operation, run on the controller its lookup
\* selects: [cfc, ok, key].  raises: the target's method raises, which the
\* in-page try/catch turns into false.
InPageDraftOp(pg, op, arg, raises) ==
  LET i == FindDraftKey(pg.cfc)
      failNoKey == [cfc |-> pg.cfc, ok |-> FALSE, key |-> NoKey]
  IN
  IF ~pg.hasCfc \/ i = 0 THEN failNoKey
  ELSE
    LET ctrl == pg.cfc[i]
        fail == [cfc |-> pg.cfc, ok |-> FALSE, key |-> ctrl.key]
        done(c) == [cfc |-> [pg.cfc EXCEPT ![i] = c], ok |-> TRUE, key |-> ctrl.key]
    IN
    CASE op = "setSubject" ->
           IF "setSubject" \notin ctrl.methods \/ raises THEN fail
           ELSE done([ctrl EXCEPT !.draft.subject = arg])
      [] op = "setBody" ->
           IF "_updateDraft" \notin ctrl.methods \/ raises THEN fail
           ELSE done([ctrl EXCEPT !.draft.body = arg])
      [] op = "addRecipient" ->
           IF ~ctrl.hasDraft \/ ~ctrl.draft.hasFrom THEN fail
           ELSE IF "_updateDraft" \notin ctrl.methods \/ raises THEN fail
           ELSE done([ctrl EXCEPT !.draft.to = Append(@, arg)])
      [] op = "saveDraft" ->
           IF "_saveDraftAsync" \notin ctrl.methods \/ raises THEN fail
           ELSE done([ctrl EXCEPT !.saved = TRUE])
      [] op = "addAttachment" ->
           IF raises THEN fail
           ELSE IF "_onAddAttachments" \in ctrl.methods
                   \/ "onPasteFile" \in ctrl.methods
                   \/ (ctrl.hasDraft /\ "addUploads" \in ctrl.methods)
           THEN done([ctrl EXCEPT !.draft.uploads = @ + 1])
           ELSE fail

\* mutant: the state is read from the last draft key
InPageDraftState_Last(pg, raises) ==
  LET i == FindDraftKey_Last(pg.cfc) IN
  IF ~pg.hasCfc \/ i = 0 \/ raises THEN [ok |-> FALSE, key |-> NoKey]
  ELSE IF ~pg.cfc[i].hasDraft THEN [ok |-> FALSE, key |-> pg.cfc[i].key]
  ELSE [ok |-> TRUE, key |-> pg.cfc[i].key,
        id |-> pg.cfc[i].draft.id, subject |-> pg.cfc[i].draft.subject,
        body |-> pg.cfc[i].draft.body, to |-> pg.cfc[i].draft.to]

\* The in-page code of getDraftState: the DraftState of the selected
\* controller, or null.
InPageDraftState(pg, raises) ==
  LET i == FindDraftKey(pg.cfc) IN
  IF ~pg.hasCfc \/ i = 0 \/ raises THEN [ok |-> FALSE, key |-> NoKey]
  ELSE IF ~pg.cfc[i].hasDraft THEN [ok |-> FALSE, key |-> pg.cfc[i].key]
  ELSE [ok |-> TRUE, key |-> pg.cfc[i].key,
        id |-> pg.cfc[i].draft.id, subject |-> pg.cfc[i].draft.subject,
        body |-> pg.cfc[i].draft.body, to |-> pg.cfc[i].draft.to]

DraftOpArgs(op) ==
  CASE op = "setSubject" -> SubjectSet
    [] op = "setBody" -> BodySet
    [] op = "addRecipient" -> {"a@x.com"}
    [] op = "saveDraft" -> {""}
    [] op = "addAttachment" -> {"f.txt"}

DraftOps_Gateway ==
  {"setSubject", "setBody", "addRecipient", "saveDraft", "addAttachment"}

\* What the caller has put into the draft since the open step, going by
\* the booleans it got back; the body is html as handed to setBody.
Populated == [to |-> <<>>, subject |-> "", body |-> ""]

PopulatedAfter(d, op, arg, ok) ==
  IF ~ok THEN d
  ELSE CASE op = "addRecipient" -> [d EXCEPT !.to = Append(@, arg)]
         [] op = "setSubject" -> [d EXCEPT !.subject = arg]
         [] op = "setBody" -> [d EXCEPT !.body = arg]
         [] OTHER -> d

\* openCompose: Escape, click on the compose area, then the lookup.  The
\* target may or may not close a compose form that was open, and may or
\* may not have created the new one when the lookup runs.
Gateway_OpenCompose ==
  /\ pc = "g_start"
  /\ \/ /\ ret' = Thrown("openCompose")
        /\ pc' = "g_thrown"
        /\ UNCHANGED <<page, opened, draft>>
     \/ \E escCloses \in BOOLEAN, created \in BOOLEAN, methods \in MethodSets,
           hasDraft \in BOOLEAN, kind \in EvalKinds \ {"reject"} :
          LET kept == IF escCloses
                      THEN SelectSeq(page.cfc, LAMBDA c : ~startsWith(c.key, "draft"))
                      ELSE page.cfc
              k == <<"draft", page.created + 1>>
              cfc == IF created /\ page.hasCfc
                     THEN Append(kept, Controller(k, methods, hasDraft, hasDraft))
                     ELSE kept
              i == FindDraftKey(cfc)
              found == IF kind = "value" /\ page.hasCfc /\ i # 0
                       THEN cfc[i].key ELSE NoKey
          IN
          /\ (~created => methods = {} /\ ~hasDraft)
          /\ page' = [page EXCEPT !.cfc = cfc,
                                  !.created = IF created /\ page.hasCfc
                                              THEN @ + 1 ELSE @]
          /\ ret' = Returned("openCompose", found # NoKey, found, found)
          /\ opened' = found
          /\ draft' = Populated
          /\ pc' = "g_ops"
  /\ UNCHANGED <<options, status, exitStatus, exitCode, conn, connectCalls,
                 disconnectCalls, bulkVars, calls, stdoutJson, console,
                 toolResult, accounts, recipientResults, subjectSet, bodySet,
                 draftKey, draftState, locatorVars>>

\* A session that goes on with the compose form as it is (cmdDraft saves on
\* a second session).
Gateway_Resume ==
  /\ pc = "g_start"
  /\ pc' = "g_ops"
  /\ UNCHANGED <<options, status, exitStatus, exitCode, conn, connectCalls,
                 disconnectCalls, bulkVars, calls, stdoutJson, console,
                 toolResult, accounts, composeVars, locatorVars, pageVars>>

\* The target's own method was reached and raised (the in-page code gets
\* to it only when the lookup and the checks before it pass).
TargetRaised(pg, op, arg, kind) ==
  kind = "raise" /\ InPageDraftOp(pg, op, arg, FALSE).ok

\* setSubject / setBody / addRecipient / saveDraft / addAttachment: the
\* value of the evaluation, `=== true` for the boolean ones; a rejected
\* Runtime.evaluate is thrown to the caller.  ret notes whether the target
\* raised in this call.
Gateway_DraftOp ==
  /\ pc = "g_ops"
  /\ idx <= MaxGatewayCalls
  /\ \E op \in DraftOps_Gateway : \E arg \in DraftOpArgs(op) : \E kind \in EvalKinds :
       CASE kind = "reject" ->
              /\ ret' = Thrown(op)
              /\ pc' = "g_thrown"
              /\ UNCHANGED <<page, draft, subjectSet, bodySet>>
         [] kind = "evalfail" ->
              /\ ret' = Returned(op, FALSE, NoKey,
                                 IF op = "addAttachment" THEN "undefined" ELSE "false")
              /\ draft' = draft
              /\ subjectSet' = (subjectSet /\ op # "setSubject")
              /\ bodySet' = (bodySet /\ op # "setBody")
              /\ UNCHANGED <<page, pc>>
         [] OTHER ->
              LET r == InPageDraftOp(page, op, arg, kind = "raise") IN
              /\ page' = [page EXCEPT !.cfc = r.cfc]
              /\ ret' = Returned(op, r.ok, r.key, IF r.ok THEN "true" ELSE "false")
                           @@ [raised |-> TargetRaised(page, op, arg, kind)]
              /\ draft' = PopulatedAfter(draft, op, arg, r.ok)
              /\ subjectSet' = (subjectSet /\ (op = "setSubject" => r.ok))
              /\ bodySet' = (bodySet /\ (op = "setBody" => r.ok))
              /\ UNCHANGED pc
  /\ idx' = idx + 1
  /\ UNCHANGED <<options, status, exitStatus, exitCode, conn, connectCalls,
                 disconnectCalls, successCount, failCount, results, executed,
                 calls, stdoutJson, console, toolResult, accounts,
                 recipientResults, draftKey, draftState, opened, locatorVars>>

\* getDraftState: the evaluation's value as it is (undefined when the
\* evaluation failed).
Gateway_GetDraftState ==
  /\ pc = "g_ops"
  /\ idx <= MaxGatewayCalls
  /\ \E kind \in EvalKinds :
       CASE kind = "reject" ->
              /\ ret' = Thrown("getDraftState")
              /\ pc' = "g_thrown"
              /\ UNCHANGED draftState
         [] kind = "evalfail" ->
              /\ ret' = Returned("getDraftState", FALSE, NoKey, [ok |-> FALSE, key |-> NoKey])
              /\ draftState' = "null"
              /\ UNCHANGED pc
         [] OTHER ->
              LET v == InPageDraftState(page, kind = "raise") IN
              /\ ret' = Returned("getDraftState", v.ok, v.key, v)
              /\ draftState' = (IF v.ok THEN "state" ELSE "null")
              /\ UNCHANGED pc
  /\ idx' = idx + 1
  /\ UNCHANGED <<options, status, exitStatus, exitCode, conn, connectCalls,
                 disconnectCalls, successCount, failCount, results, executed,
                 calls, stdoutJson, console, toolResult, accounts,
                 recipientResults, subjectSet, bodySet, draftKey, draft, page,
                 opened, locatorVars>>

\* ------------------------------------------------- read status of a thread
\* The part of the page markAsRead / markAsUnread look at: the DI
\* container, the thread in the identity map, its model and labelIds, the
\* account kind, the two backend services and the methods msgraph exposes.
\* log lists the remote mutations invoked, in order.
MsgraphMethods ==
  {"updateMessages", "patchMessages", "markMessagesAsRead",
   "markMessagesAsUnread", "updateMessage", "patchMessage"}

MsgraphVersions ==
  {MsgraphMethods, {}, {"patchMessages", "updateMessage"},
   {"markMessagesAsRead", "markMessagesAsUnread", "patchMessage"},
   {"updateMessage", "patchMessage"}, {"patchMessage"}}

\* model.labelIds as the backend delivers it: a list in which no label
\* occurs twice; it is <<>> when the model has no labelIds (hasLabels false).
LabelLists == {<<>>, <<"INBOX">>, <<"UNREAD", "INBOX">>, <<"INBOX", "UNREAD">>}

ThreadPages ==
  {pg \in [kind: {"thread"},
           found: {"no-di", "no-thread", "no-model", "model"},
           hasLabels: BOOLEAN,
           labelIds: LabelLists,
           isMicrosoft: BOOLEAN,
           hasMsgraph: BOOLEAN, methods: MsgraphVersions,
           messageIds: {<<>>, <<"m1", "m2">>},
           hasGmail: BOOLEAN,
           log: {<<>>}] :
     ~pg.hasLabels => pg.labelIds = <<>>}

\* labelIds.includes(label)
hasLabel(list, x) == \E i \in 1..Len(list) : list[i] = x

\* if (!model.labelIds.includes('UNREAD')) model.labelIds.push('UNREAD')
AddUnread(labelIds) ==
  IF hasLabel(labelIds, "UNREAD") THEN labelIds ELSE Append(labelIds, "UNREAD")

\* mutant: the local labels are not updated
RemoveUnread_Keep(labelIds) == labelIds

\* model.labelIds.filter(l => l !== 'UNREAD')
RemoveUnread(labelIds) ==
  LET NotUnread(l) == l # "UNREAD" IN SelectSeq(labelIds, NotUnread)

Remote(service, method, arg) == [service |-> service, method |-> method, arg |-> arg]

\* The msgraph calls the if / else-if chain makes for a thread's messages:
\* the first batch method that exists, else per message updateMessage or
\* patchMessage, else nothing.
MsgraphCalls(methods, messageIds, toRead) ==
  LET third == IF toRead THEN "markMessagesAsRead" ELSE "markMessagesAsUnread"
      perMessage(m) == [i \in 1..Len(messageIds) |-> Remote("msgraph", m, messageIds[i])]
  IN
  IF "updateMessages" \in methods THEN <<Remote("msgraph", "updateMessages", "all")>>
  ELSE IF "patchMessages" \in methods THEN <<Remote("msgraph", "patchMessages", "all")>>
  ELSE IF third \in methods THEN <<Remote("msgraph", third, "all")>>
  ELSE IF "updateMessage" \in methods THEN perMessage("updateMessage")
  ELSE IF "patchMessage" \in methods THEN perMessage("patchMessage")
  ELSE <<>>

ReadStatusResult(success, error) == [success |-> success, error |-> error]

\* mutant: no short-circuit on a thread that is already in the wanted state
AlreadyThere_Never(pg, toRead) == FALSE

\* !model.labelIds || !model.labelIds.includes('UNREAD') for markAsRead,
\* model.labelIds && model.labelIds.includes('UNREAD') for markAsUnread
AlreadyThere(pg, toRead) ==
  IF toRead THEN ~pg.hasLabels \/ ~hasLabel(pg.labelIds, "UNREAD")
  ELSE pg.hasLabels /\ hasLabel(pg.labelIds, "UNREAD")

\* The model's labels once the remote mutation is over.
LabelsUpdated(pg, toRead) ==
  [pg EXCEPT !.hasLabels = TRUE,
             !.labelIds = IF toRead THEN RemoveUnread(@)
                          ELSE IF pg.hasLabels THEN AddUnread(@)
                          ELSE AddUnread(<<>>)]

\* mutant: the local labels are updated before the remote mutation is made
LocalUpdate_BeforeRemote(pg, toRead, raised) == LabelsUpdated(pg, toRead)

\* "Update local state for immediate UI feedback" comes after the awaited
\* remote mutation: it is skipped when that raised.
LocalUpdate(pg, toRead, raised) ==
  IF raised THEN pg ELSE LabelsUpdated(pg, toRead)

\* The in-page code of markAsRead (toRead) / markAsUnread: [page, value].
\* raises: the first remote call raises, which the catch maps to
\* success:false.
InPageMark(pg, toRead, raises) ==
  LET fail(e) == [page |-> pg, value |-> ReadStatusResult(FALSE, e)]
      finish(remote) ==
        LET raised == remote # <<>> /\ raises IN
        [page |-> [LocalUpdate(pg, toRead, raised) EXCEPT
                     !.log = IF raised THEN Append(@, remote[1]) ELSE @ \o remote],
         value |-> IF raised THEN ReadStatusResult(FALSE, "raised")
                   ELSE ReadStatusResult(TRUE, "")]
  IN
  CASE pg.found = "no-di" -> fail("DI container not found")
    [] pg.found = "no-thread" -> fail("Thread not found")
    [] pg.found = "no-model" -> fail("Thread model not found")
    [] OTHER ->
         IF AlreadyThere(pg, toRead)
         THEN [page |-> pg, value |-> ReadStatusResult(TRUE, "")]
         ELSE IF pg.isMicrosoft
         THEN IF ~pg.hasMsgraph THEN fail("msgraph service not found")
              ELSE IF pg.messageIds = <<>> THEN fail("No messages found in thread")
              ELSE finish(MsgraphCalls(pg.methods, pg.messageIds, toRead))
         ELSE IF ~pg.hasGmail THEN fail("gmail service not found")
              ELSE finish(<<Remote("gmail", "changeLabelsPerThread",
                                   IF toRead THEN "remove UNREAD" ELSE "add UNREAD")>>)

\* markAsRead / markAsUnread: {success: value?.success ?? false,
\* error: value?.error}; a rejected Runtime.evaluate is thrown.  ret keeps
\* the page as it was when the call was made.
ReadStatus_Mark ==
  /\ pc = "mark"
  /\ idx <= MaxMarkCalls
  /\ \E toRead \in BOOLEAN, kind \in EvalKinds :
       LET op == IF toRead THEN "markAsRead" ELSE "markAsUnread" IN
       CASE kind = "reject" ->
              /\ ret' = Thrown(op) @@ [pre |-> page, eval |-> kind]
              /\ pc' = "g_thrown"
              /\ UNCHANGED page
         [] kind = "evalfail" ->
              /\ ret' = Returned(op, FALSE, NoKey, ReadStatusResult(FALSE, ""))
                           @@ [pre |-> page, eval |-> kind]
              /\ UNCHANGED <<page, pc>>
         [] OTHER ->
              LET r == InPageMark(page, toRead, kind = "raise") IN
              /\ page' = r.page
              /\ ret' = Returned(op, r.value.success, NoKey, r.value)
                           @@ [pre |-> page, eval |-> kind]
              /\ UNCHANGED pc
  /\ idx' = idx + 1
  /\ UNCHANGED <<options, status, exitStatus, exitCode, conn, connectCalls,
                 disconnectCalls, successCount, failCount, results, executed,
                 calls, stdoutJson, console, toolResult, accounts, composeVars,
                 opened, locatorVars>>

\* ---------------------------------------------------------- attachments
\* What listAttachments and downloadAttachment read in the page: the
\* identity map and the thread's attachments, the DI container, the account
\* kind, whether each backend service has a downloadAttachment function,
\* and what that function answers.
ResponseKinds == {"buffer", "string", "data", "blob", "other"}

Contents == {<<>>, <<"x", "y">>}

AttachmentPages ==
  [kind: {"attachments"},
   hasThread: BOOLEAN,
   attachments: {<<>>, <<"a1", "a2">>},
   hasDi: BOOLEAN,
   isMicrosoft: BOOLEAN,
   gmailDownload: BOOLEAN,
   msgraphDownload: BOOLEAN,
   response: ResponseKinds,
   content: Contents]

\* arrayBufferToBase64 / blobToBase64
arrayBufferToBase64(content) == <<"base64">> \o content

\* What the in-page code makes of a service's response: {data, size} or
\* {error}.
ResponseValue(service, kind, content) ==
  CASE kind \in {"buffer", "blob"} ->
         [data |-> arrayBufferToBase64(content), size |-> Len(content)]
    [] kind = "string" -> [data |-> content, size |-> Len(content)]
    [] kind = "data" /\ content # <<>> -> [data |-> content, size |-> Len(content)]
    [] OTHER -> [error |-> "Unexpected " \o service \o " response format"]

\* "Try Gmail service first", then "Try Microsoft Graph service": the
\* service is chosen by which downloadAttachment function exists.
DownloadService(pg) ==
  IF ~pg.hasDi THEN "none"
  ELSE IF pg.gmailDownload THEN "gmail"
  ELSE IF pg.msgraphDownload THEN "msgraph"
  ELSE "none"

\* The in-page code of downloadAttachment: [invoked, value].
InPageDownload(pg, raises) ==
  LET service == DownloadService(pg) IN
  IF service = "none"
  THEN [invoked |-> <<>>, value |-> [error |-> "No download service available"]]
  ELSE IF raises
  THEN [invoked |-> <<service>>, value |-> [error |-> "Download failed"]]
  ELSE [invoked |-> <<service>>,
        value |-> ResponseValue(service, pg.response, pg.content)]

\* downloadAttachment: value.error is thrown as an Error, and reading
\* value.error of a missing value throws as well; otherwise {data, size}.
Attachments_Download ==
  /\ pc = "attach"
  /\ \E kind \in EvalKinds, ran \in BOOLEAN :
       LET r == InPageDownload(page, kind = "raise")
           about == [pre |-> page, eval |-> kind,
                     invoked |-> IF kind \in {"value", "raise"} \/ ran
                                 THEN r.invoked ELSE <<>>]
       IN
       /\ kind \in {"value", "raise"} => ran
       /\ ret' = IF kind \in {"value", "raise"} /\ "error" \notin DOMAIN r.value
                 THEN Returned("downloadAttachment", TRUE, NoKey,
                               [data |-> r.value.data, size |-> r.value.size]) @@ about
                 ELSE Thrown("downloadAttachment") @@ about
  /\ UNCHANGED <<options, pc, idx, status, exitStatus, exitCode, conn,
                 connectCalls, disconnectCalls, successCount, failCount,
                 results, executed, calls, stdoutJson, console, toolResult,
                 accounts, composeVars, page, opened, locatorVars>>

\* listAttachments: the thread's attachments, [] when the thread is not
\* there, the in-page code raised or the evaluation gave no value.
Attachments_List ==
  /\ pc = "attach"
  /\ \E kind \in EvalKinds :
       LET about == [pre |-> page, eval |-> kind, invoked |-> <<>>] IN
       ret' = IF kind = "reject" THEN Thrown("listAttachments") @@ about
              ELSE Returned("listAttachments", TRUE, NoKey,
                            IF kind = "value" /\ page.hasThread
                            THEN page.attachments ELSE <<>>) @@ about
  /\ UNCHANGED <<options, pc, idx, status, exitStatus, exitCode, conn,
                 connectCalls, disconnectCalls, successCount, failCount,
                 results, executed, calls, stdoutJson, console, toolResult,
                 accounts, composeVars, page, opened, locatorVars>>

\* ------------------------------------------------------------- parseArgs
\* The words of a command line: two commands, thread ids, the two policy
\* flags, an option that takes a value, and -h.
ArgTokens == {"archive", "reply", "t1", "t2", "--yes", "--dry-run", "--label", "-h"}

ArgLists == SeqsUpTo(ArgTokens, MaxArgs)

\* process.argv.slice(2), held where the run finds it
ArgvPages == [kind: {"argv"}, args: ArgLists]

\* arg.startsWith("--")
IsOption(arg) == arg \in {"--yes", "--dry-run", "--label", "--until"}

\* the commands whose first positional is options.threadId
SingleThreadCommands ==
  {"read", "reply", "reply-all", "forward", "get-labels", "attachments"}

\* the commands for which parseArgs does options.threadIds.push(arg)
AccumulatesThreadIds(command) ==
  command \in
    {"archive", "delete", "mark-read", "mark-unread", "add-label",
     "remove-label", "star", "unstar", "snooze", "unsnooze"}

\* mutant: a later id goes in front of the earlier ones
PushThreadId_Front(threadIds, arg) == <<arg>> \o threadIds

\* options.threadIds.push(arg)
PushThreadId(threadIds, arg) == Append(threadIds, arg)

CliParseError(text) == [ok |-> FALSE, error |-> text]

\* readOptionValue: the word after the flag, which must be there and must
\* not start with "--".
HasOptionValue(args, i) == i + 1 <= Len(args) /\ ~IsOption(args[i + 1])

\* The while loop of parseArgs from position i on.
RECURSIVE parseArgsFrom(_, _, _)
parseArgsFrom(args, i, o) ==
  IF i > Len(args) THEN [ok |-> TRUE, options |-> o]
  ELSE
    LET arg == args[i] IN
    IF arg = "-h" THEN parseArgsFrom(args, i + 1, [o EXCEPT !.command = "help"])
    ELSE IF IsOption(arg)
    THEN CASE arg = "--yes" ->
                parseArgsFrom(args, i + 1, [o EXCEPT !.confirm = TRUE])
           [] arg = "--dry-run" ->
                parseArgsFrom(args, i + 1, [o EXCEPT !.dryRun = TRUE])
           [] arg = "--label" ->
                IF HasOptionValue(args, i)
                THEN parseArgsFrom(args, i + 2, [o EXCEPT !.labelId = args[i + 1]])
                ELSE CliParseError(<<"Missing value for", arg>>)
           [] arg = "--until" ->
                IF HasOptionValue(args, i)
                THEN parseArgsFrom(args, i + 2, [o EXCEPT !.snoozeUntil = args[i + 1]])
                ELSE CliParseError(<<"Missing value for", arg>>)
    ELSE IF o.command = ""
    THEN parseArgsFrom(args, i + 1, [o EXCEPT !.command = arg])
    ELSE IF o.command \in SingleThreadCommands /\ o.threadId = ""
    THEN parseArgsFrom(args, i + 1, [o EXCEPT !.threadId = arg])
    ELSE IF o.command = "account" /\ o.accountArg = ""
    THEN parseArgsFrom(args, i + 1, [o EXCEPT !.accountArg = arg])
    ELSE IF AccumulatesThreadIds(o.command)
    THEN parseArgsFrom(args, i + 1,
                       [o EXCEPT !.threadIds = PushThreadId(@, arg)])
    ELSE CliParseError(<<"Unexpected argument", arg>>)

\* ---------------------------------------------------------- specifications
NoOptions ==
  [command |-> "", threadIds |-> <<>>, confirm |-> FALSE, dryRun |-> FALSE,
   json |-> FALSE, labelId |-> "", snoozeUntil |-> "", to |-> <<>>,
   subject |-> "", body |-> "", calendarDate |-> "", allAccounts |-> FALSE,
   threadId |-> "", send |-> FALSE, accountArg |-> ""]

parseArgs(args) == parseArgsFrom(args, 1, NoOptions)

\* main: options = parseArgs(args); a CliParseError is reported with the
\* help text and the process exits with status 1.
Main_ParseArgs ==
  /\ pc = "parse"
  /\ LET parsed == parseArgs(page.args) IN
     IF parsed.ok
     THEN /\ options' = parsed.options
          /\ pc' = "main"
          /\ UNCHANGED <<console, status, exitStatus>>
     ELSE /\ console' = Append(console, Line("error", parsed.error))
          /\ ProcessExit(1)
          /\ UNCHANGED options
  /\ UNCHANGED <<exitCode, conn, connectCalls, disconnectCalls, bulkVars,
                 calls, stdoutJson, toolResult, accounts, composeVars,
                 locatorVars, pageVars>>

InitCommon ==
  /\ status = "running"
  /\ exitStatus = 0
  /\ exitCode = 0
  /\ conn = "none"
  /\ connectCalls = 0
  /\ disconnectCalls = 0
  /\ idx = 1
  /\ successCount = 0
  /\ failCount = 0
  /\ results = <<>>
  /\ executed = <<>>
  /\ calls = <<>>
  /\ stdoutJson = <<>>
  /\ console = <<>>
  /\ toolResult = [isError |-> FALSE]
  /\ accounts = <<>>
  /\ recipientResults = <<>>
  /\ subjectSet = TRUE
  /\ bodySet = TRUE
  /\ draftKey = ""
  /\ draftState = "unset"
  /\ draft = NoDraft
  /\ ret = NoReturn
  /\ opened = <<>>
  /\ client = 0

\* One invocation of the CLI (or of an MCP tool) on parsed options.
Init ==
  /\ options \in BulkOptions \cup ComposeOptions \cup ReplyOptions
                  \cup CalendarOptions \cup AccountOptions \cup McpOptions
  /\ pc = (IF options.command \in McpTools THEN "handler" ELSE "main")
  /\ targets = <<>>
  /\ page = NoPage
  /\ InitCommon

Next ==
  \/ Main
  \/ CheckConnection
  \/ RunThreadActionCommand_Begin
  \/ RunThreadActionCommand_Start
  \/ RunThreadActionCommand_Item
  \/ RunThreadActionCommand_Finish
  \/ Compose_Begin
  \/ Compose_Open
  \/ Compose_AddRecipient
  \/ Compose_SetSubject
  \/ Compose_SetBody
  \/ Compose_GetDraftState
  \/ Draft_SaveDraft
  \/ Send_SendDraft
  \/ Reply_Begin
  \/ Reply_Open
  \/ Reply_AddRecipient
  \/ Reply_SetBody
  \/ Reply_CompleteDraft
  \/ Reply_Report
  \/ Calendar_Begin
  \/ Calendar_ParseDate
  \/ Calendar_ListAccounts
  \/ Calendar_SwitchAccount
  \/ Calendar_Delay
  \/ Calendar_ListEvents
  \/ Calendar_Restore
  \/ Calendar_Finish
  \/ Account_Begin
  \/ Account_ListAccounts
  \/ Account_Switch
  \/ DraftHandler_Connect
  \/ DraftHandler_Open
  \/ DraftHandler_Populate
  \/ DraftHandler_Finish
  \/ SendHandler_Send

Spec == Init /\ [][Next]_vars

\* The locator on its own: any target listing, then connect and disconnect.
InitLocator ==
  /\ options = NoOptions
  /\ pc = "locate"
  /\ targets \in SeqsUpTo(TargetSet, MaxTargets)
  /\ page = NoPage
  /\ InitCommon

NextLocator ==
  \/ ConnectToSuperhuman
  \/ Disconnect

SpecLocator == InitLocator /\ [][NextLocator]_vars

\* The gateway on its own: a compose form controller in any of the shapes
\* above, one open step at most, then draft operations in any order.
ComposePages ==
  {[kind |-> "compose", hasCfc |-> FALSE, cfc |-> <<>>, created |-> 0]}
  \cup [kind: {"compose"}, hasCfc: {TRUE},
        cfc: {<<>>, <<OtherEntry>>, <<StaleController>>,
              <<OtherEntry, StaleController>>},
        created: {0}]

InitGateway ==
  /\ options = NoOptions
  /\ pc = "g_start"
  /\ targets = <<>>
  /\ page \in ComposePages
  /\ InitCommon

NextGateway ==
  \/ Gateway_OpenCompose
  \/ Gateway_Resume
  \/ Gateway_DraftOp
  \/ Gateway_GetDraftState

SpecGateway == InitGateway /\ [][NextGateway]_vars

\* The CLI from its command line: parseArgs, the gate, the bulk runner.
InitCli ==
  /\ options = NoOptions
  /\ pc = "parse"
  /\ targets = <<>>
  /\ page \in ArgvPages
  /\ InitCommon

NextCli ==
  \/ Main_ParseArgs
  \/ Main
  \/ CheckConnection
  \/ RunThreadActionCommand_Begin
  \/ RunThreadActionCommand_Start
  \/ RunThreadActionCommand_Item
  \/ RunThreadActionCommand_Finish

SpecCli == InitCli /\ [][NextCli]_vars

\* listAttachments and downloadAttachment on any page.
InitAttachments ==
  /\ options = NoOptions
  /\ pc = "attach"
  /\ targets = <<>>
  /\ page \in AttachmentPages
  /\ InitCommon

NextAttachments ==
  \/ Attachments_List
  \/ Attachments_Download

SpecAttachments == InitAttachments /\ [][NextAttachments]_vars

\* markAsRead and markAsUnread, repeated, on any thread page.
InitReadStatus ==
  /\ options = NoOptions
  /\ pc = "mark"
  /\ targets = <<>>
  /\ page \in ThreadPages
  /\ InitCommon

NextReadStatus == ReadStatus_Mark

SpecReadStatus == InitReadStatus /\ [][NextReadStatus]_vars

\* ------------------------------------------------------------------ claims
Ended == status \in {"exited", "returned"}

IsBulkRun == options.command \in BulkCommands

\* The options on which the confirmation gate is meant to refuse.
GateCase ==
  /\ IsBulkRun
  /\ Len(options.threadIds) > 1
  /\ ~options.confirm
  /\ ~options.dryRun

HasSummary(p) == "summary" \in DOMAIN p /\ "results" \in DOMAIN p

NamesYes(text) == \E i \in 1..Len(text) : text[i] = "--yes"

\* C1, as stated: an unconfirmed bulk run on several ids executes no
\* per-item action and its reported result carries failCount = number of ids.
C1_Original ==
  (GateCase /\ options.json /\ status = "exited") =>
    /\ executed = <<>>
    /\ Len(stdoutJson) = 1
    /\ "summary" \in DOMAIN stdoutJson[1]
    /\ stdoutJson[1].summary.failCount = Len(options.threadIds)

\* C1, amended: an unconfirmed bulk run on several ids executes no per-item
\* action and ends with status 1; what it reports is one aggregate failure
\* (ok false, the refusal message, the ids) without summary, failCount or
\* per-id results, and with --json off it writes no JSON at all.
C1_GateRefusesWithAggregateFailure ==
  GateCase =>
    /\ executed = <<>>
    /\ status = "exited" =>
         /\ exitStatus = 1
         /\ IF options.json
            THEN /\ Len(stdoutJson) = 1
                 /\ stdoutJson[1].ok = FALSE
                 /\ stdoutJson[1].command = options.command
                 /\ "error" \in DOMAIN stdoutJson[1]
                 /\ stdoutJson[1].threadIds = options.threadIds
                 /\ ~HasSummary(stdoutJson[1])
                 /\ "failCount" \notin DOMAIN stdoutJson[1]
            ELSE stdoutJson = <<>>

C1_Witness ==
  /\ GateCase
  /\ options.json
  /\ status = "exited"
  /\ Len(stdoutJson) = 1

\* A dry run whose arguments pass the command's own checks.
DryRunCase ==
  /\ IsBulkRun
  /\ options.dryRun
  /\ Len(options.threadIds) >= 1

DryRunReportOk(p) ==
  /\ p.ok = TRUE
  /\ p.summary.total = Len(options.threadIds)
  /\ p.summary.successCount = Len(options.threadIds)
  /\ p.summary.failCount = 0
  /\ Len(p.results) = Len(options.threadIds)
  /\ \A i \in 1..Len(p.results) :
       /\ p.results[i].threadId = options.threadIds[i]
       /\ p.results[i].success = TRUE
       /\ "dryRun" \in DOMAIN p.results[i]
       /\ p.results[i].dryRun = TRUE

\* C2: a dry run executes no per-item action and opens no session, whatever
\* confirm is; every report it writes has successCount = number of ids,
\* failCount = 0 and each per-id result tagged dryRun; a dry run with valid
\* arguments ends with status 0, one preview line per id and, with --json,
\* exactly that report.
C2_DryRunExecutesNothing ==
  DryRunCase =>
    /\ executed = <<>>
    /\ connectCalls = 0
    /\ \A k \in 1..Len(stdoutJson) :
         HasSummary(stdoutJson[k]) => DryRunReportOk(stdoutJson[k])
    /\ (status = "exited" /\ BulkValidationError(options) = <<>>) =>
         /\ exitStatus = 0
         /\ Len(console) = Len(options.threadIds)
         /\ \A i \in 1..Len(console) :
              /\ console[i].stream = "info"
              /\ console[i].text[1] = "[dry-run] Would"
              /\ console[i].text[3] = options.threadIds[i]
         /\ Len(stdoutJson) = (IF options.json THEN 1 ELSE 0)
         /\ options.json => HasSummary(stdoutJson[1])

C2_Witness ==
  /\ DryRunCase
  /\ Len(options.threadIds) > 1
  /\ ~options.confirm
  /\ options.json
  /\ status = "exited"
  /\ Len(stdoutJson) = 1
  /\ HasSummary(stdoutJson[1])

NamesInOrder(res, ids) ==
  /\ Len(res) = Len(ids)
  /\ \A i \in 1..Len(ids) : res[i].threadId = ids[i]

\* C3, as stated: a confirmed bulk run that opened its session ends with one
\* result per input id, the i-th naming the i-th id, whatever happened to the
\* individual items.
C3_Original ==
  (IsBulkRun /\ options.confirm /\ conn # "none" /\ status = "exited") =>
    NamesInOrder(results, options.threadIds)

\* C4: sc + fc = number of results collected and sc = number of successful
\* results, in every state of the run; every reported summary has
\* successCount + failCount = total = results.length.
C4_CountsMatchResults ==
  /\ successCount + failCount = Len(results)
  /\ successCount = Cardinality({i \in 1..Len(results) : results[i].success})
  /\ IsBulkRun => Len(results) = Len(executed) \/ Len(results) + 1 = Len(executed)
  /\ \A k \in 1..Len(stdoutJson) :
       HasSummary(stdoutJson[k]) =>
         LET p == stdoutJson[k] IN
         /\ p.summary.successCount + p.summary.failCount = p.summary.total
         /\ p.summary.total = Len(p.results)
         /\ p.summary.total = Len(options.threadIds)
         /\ p.ok = (p.summary.failCount = 0)

C4_Witness ==
  /\ IsBulkRun
  /\ ~options.dryRun
  /\ pc = "done"
  /\ successCount > 0
  /\ failCount > 0
  /\ Len(stdoutJson) = 1
  /\ HasSummary(stdoutJson[1])

\* C5, as stated: in a bulk run that opened its session the action is
\* applied to every id, whatever happened to the action on an earlier one.
C5_Original ==
  (IsBulkRun /\ conn # "none" /\ status = "exited") =>
    executed = options.threadIds

\* C6: when the gate is to refuse, connectToSuperhuman is never called, no
\* command is entered, and the process ends with a non-zero status and a
\* failure message that names --yes (in the JSON error with --json, on the
\* console otherwise).
C6_GateBeforeSession ==
  GateCase =>
    /\ connectCalls = 0
    /\ conn = "none"
    /\ pc \in {"main", "exit"}
    /\ status = "exited" =>
         /\ exitStatus # 0
         /\ IF options.json
            THEN /\ Len(stdoutJson) = 1
                 /\ stdoutJson[1].ok = FALSE
                 /\ NamesYes(stdoutJson[1].error.text)
            ELSE \E i \in 1..Len(console) :
                   console[i].stream = "error" /\ NamesYes(console[i].text)

C6_Witness ==
  /\ GateCase
  /\ status = "exited"
  /\ ~options.json
  /\ connectCalls = 0
  /\ Len(console) = 2

\* C7, as stated: an operation that opened a session never ends (process
\* exit or handler return) with that session still open.
C7_Original == Ended => conn # "open"

\* A target the locator is allowed to attach to, restated from the claim.
Qualifies(t) ==
  /\ Origin \in t.url
  /\ t.type = "page"
  /\ "background" \notin t.url
  /\ "serviceworker" \notin t.url

\* C9: once connectToSuperhuman has run, the client is attached to the first
\* qualifying target of the listing; it is never attached to a background or
\* service-worker context; when no target qualifies there is no client, no
\* session, and the failure is reported.
C9_AttachesToFirstMainPage ==
  pc # "locate" =>
    /\ client # 0 =>
         /\ client \in 1..Len(targets)
         /\ Qualifies(targets[client])
         /\ \A j \in 1..(client - 1) : ~Qualifies(targets[j])
    /\ (client = 0) = (\A j \in 1..Len(targets) : ~Qualifies(targets[j]))
    /\ client = 0 =>
         /\ conn = "none"
         /\ pc = "done"
         /\ Len(console) = 1
         /\ console[1].stream = "error"

C9_Witness ==
  /\ pc = "located"
  /\ Len(targets) = 2
  /\ client = 2
  /\ Origin \in targets[1].url
  /\ "background" \in targets[1].url
  /\ targets[1].type = "page"

TopLevelOps ==
  {"openCompose", "addRecipient", "setSubject", "setBody", "saveDraft",
   "sendDraft", "switchAccount"}

ReportedFailure ==
  \E i \in 1..Len(calls) :
    calls[i].op \in TopLevelOps /\ calls[i].result = "fail"

\* C10, as stated: a CLI command never ends with status 0 when its bulk run
\* counted a failure or one of its top-level operations reported failure.
C10_Original ==
  (status = "exited" /\ (failCount > 0 \/ ReportedFailure)) => exitStatus # 0

FieldSetOps == {"addRecipient", "setSubject", "setBody"}
OpenOps ==
  {"openCompose", "openReplyCompose", "openReplyAllCompose",
   "openForwardCompose"}
DraftOps == FieldSetOps \cup {"saveDraft", "getDraftState", "sendDraft"}

\* C11: in every composition flow (send, MCP send, reply / reply-all /
\* forward with --send) the send call is the last operation issued: nothing
\* is called after it, the flow is at its report or has ended, and a flow
\* that ended after the send returned has disconnected.
C11_SentIsTerminal ==
  \A i \in 1..Len(calls) :
    calls[i].op = "sendDraft" =>
      /\ i = Len(calls)
      /\ pc \in {"r_succeeded", "r_failed", "done", "exit"}
      /\ (Ended /\ calls[i].result # "throw") => conn = "closed"

C11_Witness ==
  /\ options.command = "forward"
  /\ options.send
  /\ options.body = ""
  /\ pc = "done"
  /\ Len(calls) = 3
  /\ calls[3].op = "sendDraft"
  /\ calls[3].result = "ok"
  /\ Len(stdoutJson) = 1

FailureReported ==
  \/ status = "exited" /\ exitStatus # 0
  \/ status = "returned" /\ toolResult.isError

\* C12: a field set, a save or a send is issued only after an open step of
\* the same flow returned a draft key; when the open step returns null
\* nothing more is issued on the draft and the flow ends reporting failure
\* (non-zero exit status, ok false in the JSON, isError from a handler).
C12_NoDraftKeyNoOperation ==
  /\ \A i \in 1..Len(calls) :
       calls[i].op \in FieldSetOps \cup {"saveDraft", "sendDraft"} =>
         \E j \in 1..(i - 1) :
           calls[j].op \in OpenOps /\ calls[j].result = "ok"
  /\ \A i \in 1..Len(calls) :
       (calls[i].op \in OpenOps /\ calls[i].result = "fail") =>
         /\ i = Len(calls)
         /\ draft = NoDraft
         /\ Ended =>
              /\ FailureReported
              /\ \A k \in 1..Len(stdoutJson) : stdoutJson[k].ok = FALSE

C12_Witness ==
  /\ options.command = "reply-all"
  /\ options.json
  /\ pc = "done"
  /\ Len(calls) = 1
  /\ calls[1].op = "openReplyAllCompose"
  /\ calls[1].result = "fail"
  /\ exitStatus = 1
  /\ Len(stdoutJson) = 1

IsFieldSet(c) == c.op \in FieldSetOps
IsRecipientOk(c) == c.op = "addRecipient" /\ c.result = "ok"
FieldCalls == SelectSeq(calls, IsFieldSet)
Rejected == \E i \in 1..Len(calls) : calls[i].result = "throw"

\* The field sets the compose command was asked for, in the order it makes
\* them.
RequestedFieldSets(o) ==
  [i \in 1..Len(o.to) |-> <<"addRecipient", o.to[i]>>]
  \o (IF o.subject # "" THEN << <<"setSubject", o.subject>> >> ELSE <<>>)
  \o (IF o.body # "" THEN << <<"setBody", o.body>> >> ELSE <<>>)

FieldResult(op) ==
  \A i \in 1..Len(calls) : calls[i].op = op => calls[i].result = "ok"

\* C13: in the compose command the field sets issued so far are the first
\* of the requested ones, in order, whatever the earlier ones returned; the
\* draft holds every successful set and nothing of a failed one; each
\* outcome is kept per field; and a run whose calls all returned ends with
\* every requested field set attempted, ok (and exit status 0) exactly when
\* all of them succeeded.
C13_FieldSetsIndependent ==
  options.command = "compose" =>
    LET fc == FieldCalls
        req == RequestedFieldSets(options)
        okRecipients == SelectSeq(calls, IsRecipientOk)
        allOk == \A i \in 1..Len(fc) : fc[i].result = "ok"
    IN
    /\ Len(fc) <= Len(req)
    /\ \A i \in 1..Len(fc) : fc[i].op = req[i][1] /\ fc[i].arg = req[i][2]
    /\ draft.to = [i \in 1..Len(okRecipients) |-> okRecipients[i].arg]
    /\ draft.subject =
         (IF \E i \in 1..Len(fc) : fc[i].op = "setSubject" /\ fc[i].result = "ok"
          THEN options.subject ELSE "")
    /\ draft.body =
         (IF \E i \in 1..Len(fc) : fc[i].op = "setBody" /\ fc[i].result = "ok"
          THEN textToHtml(options.body) ELSE <<>>)
    /\ ~Rejected =>
         /\ Len(recipientResults) =
              Cardinality({i \in 1..Len(fc) : fc[i].op = "addRecipient"})
         /\ \A i \in 1..Len(recipientResults) :
              /\ recipientResults[i].email = fc[i].arg
              /\ recipientResults[i].success = (fc[i].result = "ok")
         /\ subjectSet = FieldResult("setSubject")
         /\ bodySet = FieldResult("setBody")
    /\ (pc = "done" /\ draftKey # "") =>
         /\ Len(fc) = Len(req)
         /\ (exitStatus = 0) = allOk
         /\ options.json =>
              /\ Len(stdoutJson) = 1
              /\ stdoutJson[1].ok = allOk
              /\ stdoutJson[1].recipients = recipientResults
              /\ stdoutJson[1].subjectSet = subjectSet
              /\ stdoutJson[1].bodySet = bodySet

C13_Witness ==
  /\ options.command = "compose"
  /\ options.json
  /\ pc = "done"
  /\ Len(FieldCalls) = 4
  /\ FieldCalls[1].result = "ok"
  /\ FieldCalls[2].result = "fail"
  /\ FieldCalls[3].result = "fail"
  /\ FieldCalls[4].result = "ok"
  /\ draft.to = <<options.to[1]>>
  /\ draft.body # <<>>
  /\ stdoutJson[1].ok = FALSE

\* The draft key created last among those the controller holds (<<>> when
\* it holds none).
MostRecentDraftKey(cfc) ==
  LET ds == SelectSeq(cfc, LAMBDA c : c.key # <<>> /\ c.key[1] = "draft") IN
  IF ds = <<>> THEN <<>> ELSE ds[Len(ds)].key

\* C14, as stated: whenever openCompose or a draft operation has selected a
\* draft key, it is the most recently created one the controller holds.
C14_Original ==
  (ret.kind = "returned" /\ ret.key # <<>>) =>
    ret.key = MostRecentDraftKey(page.cfc)

\* The session opened a compose form and every setSubject and setBody since
\* returned true, at least one of each.
PopulatedCase ==
  /\ opened # <<>>
  /\ subjectSet
  /\ bodySet
  /\ draft.subject # ""
  /\ draft.body # ""

MarkReturned(op) ==
  /\ ret.kind = "returned"
  /\ ret.op = op

IsRead(pg) == ~pg.hasLabels \/ \A i \in 1..Len(pg.labelIds) : pg.labelIds[i] # "UNREAD"

MarkWasThere(toRead) == IF toRead THEN IsRead(ret.pre) ELSE ~IsRead(ret.pre)

\* C15: markAsRead on a thread that is already read, and markAsUnread on
\* one that is already unread, invokes no remote mutation and leaves the
\* local labels alone, and answers success:true when the thread's model was
\* found and the evaluation returned its value; this holds at every one of
\* the repeated calls.
C15_AlreadyInStateIsNoOp ==
  \A toRead \in BOOLEAN :
    LET op == IF toRead THEN "markAsRead" ELSE "markAsUnread" IN
    (pc = "mark" /\ MarkReturned(op) /\ MarkWasThere(toRead)) =>
       /\ page.log = ret.pre.log
       /\ page.labelIds = ret.pre.labelIds
       /\ page.hasLabels = ret.pre.hasLabels
       /\ (ret.pre.found = "model" /\ ret.eval \in {"value", "raise"})
            => ret.value = ReadStatusResult(TRUE, "")

\* a second markAsRead on the thread the first one has just marked read
C15_Witness ==
  /\ idx = 3
  /\ MarkReturned("markAsRead")
  /\ ret.pre.found = "model"
  /\ ret.pre.log # <<>>
  /\ ret.pre.hasLabels
  /\ MarkWasThere(TRUE)
  /\ ret.value.success
  /\ page = ret.pre

\* A markAsRead that went through the msgraph fallback chain.
MsFallbackCase ==
  /\ pc = "mark"
  /\ MarkReturned("markAsRead")
  /\ ret.eval \in {"value", "raise"}
  /\ ret.pre.found = "model"
  /\ ~IsRead(ret.pre)
  /\ ret.pre.isMicrosoft
  /\ ret.pre.hasMsgraph
  /\ ret.pre.messageIds # <<>>
  /\ ret.pre.methods # {}

\* C16 as stated: on a Microsoft account the result of a successful
\* markAsRead records which entry point was used.
C16_Original ==
  (MsFallbackCase /\ ret.value.success) =>
     \E f \in DOMAIN ret.value \ {"success", "error"} :
        ret.value[f] = page.log[Len(page.log)].method

\* A downloadAttachment whose in-page code ran.
DownloadCase ==
  /\ "op" \in DOMAIN ret
  /\ ret.op = "downloadAttachment"
  /\ ret.eval \in {"value", "raise"}

\* C17 as stated: on a Microsoft account only the msgraph download is
\* invoked, on a Google account only the gmail download, never both.
C17_Original ==
  DownloadCase =>
    \A i \in 1..Len(ret.invoked) :
      ret.invoked[i] = IF ret.pre.isMicrosoft THEN "msgraph" ELSE "gmail"

\* C18 as stated: a gateway operation whose target raises, or whose
\* evaluation fails, returns a failure value and never throws.
C18_Original ==
  ("op" \in DOMAIN ret /\ ret.op = "downloadAttachment"
     /\ ret.eval \in {"raise", "evalfail"} /\ DownloadService(ret.pre) # "none")
    => ret.kind = "returned" /\ ~ret.ok

\* An account command that has ended after resolving its target among the
\* listed accounts.
AccountResolved ==
  /\ options.command = "account"
  /\ Ended
  /\ \E i \in 1..Len(calls) : calls[i] = Call("listAccounts", "", "ok")
  /\ AccountTarget(options.accountArg, accounts) # ""

SwitchIssued == \E i \in 1..Len(calls) : calls[i].op = "switchAccount"

\* C19: when the account asked for (by 1-based index or by email in any
\* case) is the current one, no switch is issued and the command succeeds:
\* exit status 0 and, with --json, switched = false; a switch is issued
\* exactly when the target differs from the current account.
C19_NoSwitchWhenAlreadyCurrent ==
  AccountResolved =>
    LET targetEmail == AccountTarget(options.accountArg, accounts)
        current == originalAccount(accounts)
    IN
    /\ SwitchIssued <=> (targetEmail # current)
    /\ (targetEmail = current) =>
         /\ exitStatus = 0
         /\ conn = "closed"
         /\ options.json =>
              stdoutJson = <<[ok |-> TRUE, command |-> "account",
                              switched |-> FALSE,
                              currentAccount |-> targetEmail]>>

\* the second account, asked for in upper case while it is the current one
C19_Witness ==
  /\ AccountResolved
  /\ options.accountArg = "U2@X.COM"
  /\ options.json
  /\ originalAccount(accounts) = "u2@x.com"
  /\ ~SwitchIssued
  /\ exitStatus = 0
  /\ Len(stdoutJson) = 1
  /\ ~stdoutJson[1].switched

\* The entry points the fallback chain of markAsRead (toRead) or
\* markAsUnread looks for.
ChainCandidates(toRead) ==
  {"updateMessages", "patchMessages", "updateMessage", "patchMessage",
   IF toRead THEN "markMessagesAsRead" ELSE "markMessagesAsUnread"}

\* A call that reached the msgraph fallback chain and found none of its
\* entry points on the service.
NoCandidateCase(toRead) ==
  /\ pc = "mark"
  /\ MarkReturned(IF toRead THEN "markAsRead" ELSE "markAsUnread")
  /\ ret.eval \in {"value", "raise"}
  /\ ret.pre.found = "model"
  /\ ~MarkWasThere(toRead)
  /\ ret.pre.isMicrosoft
  /\ ret.pre.hasMsgraph
  /\ ret.pre.messageIds # <<>>
  /\ ret.pre.methods \cap ChainCandidates(toRead) = {}

\* C21 as stated: when none of the candidate entry points exists on a
\* Microsoft account, markAsRead / markAsUnread reports success:false and
\* leaves the thread's local labels as they were.
C21_Original ==
  \A toRead \in BOOLEAN :
    NoCandidateCase(toRead) =>
      /\ ~ret.value.success
      /\ page.labelIds = ret.pre.labelIds
      /\ page.hasLabels = ret.pre.hasLabels

\* How often a label occurs in a list, and the list without UNREAD.
Occurrences(list, x) == Cardinality({i \in 1..Len(list) : list[i] = x})

OtherLabels(list) ==
  LET Other(l) == l # "UNREAD" IN SelectSeq(list, Other)

\* C23: after a successful markAsRead the thread's local labelIds hold no
\* UNREAD, after a successful markAsUnread they hold UNREAD exactly once,
\* and the other labels are as they were, whatever the labels were before.
C23_InverseOnUnread ==
  (pc = "mark" /\ ret.kind = "returned" /\ ret.ok /\ ret.pre.found = "model") =>
     /\ OtherLabels(page.labelIds) = OtherLabels(ret.pre.labelIds)
     /\ ret.op = "markAsRead" => Occurrences(page.labelIds, "UNREAD") = 0
     /\ ret.op = "markAsUnread" =>
          page.hasLabels /\ Occurrences(page.labelIds, "UNREAD") = 1

\* markAsUnread has put UNREAD back on the thread an earlier markAsRead
\* took it from
C23_Witness ==
  /\ idx = 3
  /\ ret.kind = "returned"
  /\ ret.ok
  /\ ret.op = "markAsUnread"
  /\ ret.pre.log # <<>>
  /\ ret.pre.labelIds = <<"INBOX">>
  /\ page.labelIds = <<"INBOX", "UNREAD">>
  /\ Len(page.log) > Len(ret.pre.log)

LabelsAsBefore ==
  /\ page.labelIds = ret.pre.labelIds
  /\ page.hasLabels = ret.pre.hasLabels

\* C29: whenever markAsRead or markAsUnread returns success:false the
\* thread's local labelIds are what they were before the call; the local
\* labels change only in a call whose remote mutation did not raise.
C29_FailureLeavesLabels ==
  (pc = "mark" /\ ret.kind = "returned") =>
     /\ ~ret.value.success => LabelsAsBefore
     /\ ~LabelsAsBefore =>
          /\ ret.value.success
          /\ ret.pre.isMicrosoft =>
               page.log = ret.pre.log \o
                 MsgraphCalls(ret.pre.methods, ret.pre.messageIds,
                              ret.op = "markAsRead")
          /\ ~ret.pre.isMicrosoft => Len(page.log) = Len(ret.pre.log) + 1

\* the remote mutation of a markAsRead raised: UNREAD is still on the thread
C29_Witness ==
  /\ pc = "mark"
  /\ ret.kind = "returned"
  /\ ret.op = "markAsRead"
  /\ ret.eval = "raise"
  /\ ~ret.value.success
  /\ Len(page.log) = Len(ret.pre.log) + 1
  /\ ~IsRead(page)

\* The actions of a bulk run that have been started and not yet returned.
InFlight == Len(executed) - Len(results)

\* C22: in a bulk run the actions start in input order, the action on the
\* (k+1)-th id starts only when the action on the k-th id has returned,
\* and at most one action is in flight on the session.
C22_OneActionAtATime ==
  IsBulkRun =>
    /\ Len(executed) <= Len(options.threadIds)
    /\ \A k \in 1..Len(executed) : executed[k] = options.threadIds[k]
    /\ \A k \in 1..Len(results) : results[k].threadId = options.threadIds[k]
    /\ InFlight \in {0, 1}
    /\ (status = "running" /\ InFlight = 1) => pc = "awaiting"

\* the third action is in flight after the first two have returned
C22_Witness ==
  /\ IsBulkRun
  /\ pc = "awaiting"
  /\ Len(options.threadIds) = 3
  /\ Len(executed) = 3
  /\ Len(results) = 2

AllAccountsRun == options.command = "calendar" /\ options.allAccounts

\* C25: in the all-accounts calendar listing every read of events comes
\* right after the delay that follows a switch to the account it reads,
\* and no read is issued between a switch and the end of its delay.
C25_ReadAfterSwitchAndDelay ==
  AllAccountsRun =>
    \A i \in 1..Len(calls) :
      /\ calls[i].op = "listEvents" =>
           /\ i >= 3
           /\ calls[i - 1] = Call("delay", calls[i].arg, "ok")
           /\ calls[i - 2].op = "switchAccount"
           /\ calls[i - 2].arg = calls[i].arg
           /\ calls[i - 2].result # "throw"
      /\ (calls[i].op = "switchAccount" /\ i < Len(calls)) =>
           calls[i + 1].op # "listEvents"

\* the events of the second account have been read
C25_Witness ==
  /\ AllAccountsRun
  /\ Len(accounts) = 2
  /\ \E i \in 1..Len(calls) : calls[i] = Call("listEvents", "u2@x.com", "ok")
  /\ \E i \in 1..Len(calls) : calls[i] = Call("listEvents", "u1@x.com", "ok")

IsReplyRun == options.command \in ReplyCommands

CompleteOps == {"saveDraft", "sendDraft"}

Completions == {i \in 1..Len(calls) : calls[i].op \in CompleteOps}

HasCall(op, upTo) == \E j \in 1..upTo : calls[j].op = op

\* C28: replyToThread, replyAllToThread and forwardThread invoke at most one
\* of saveDraft / sendDraft, and only after the open step returned a draft
\* key and every field set they attempted succeeded; when a step fails the
\* result is success:false and neither save nor send has been invoked.
C28_CompleteOnlyAfterAllSteps ==
  IsReplyRun =>
    /\ Cardinality(Completions) <= 1
    /\ \A i \in Completions :
         /\ i = Len(calls)
         /\ calls[i].op = (IF options.send THEN "sendDraft" ELSE "saveDraft")
         /\ i > 1
         /\ calls[1].op = ReplyOpenOp(options.command)
         /\ \A j \in 1..(i - 1) : calls[j].result = "ok"
         /\ options.command = "forward" => HasCall("addRecipient", i - 1)
         /\ (options.command # "forward" \/ options.body # "")
              => HasCall("setBody", i - 1)
    /\ (\E j \in 1..Len(calls) :
          calls[j].op \notin CompleteOps /\ calls[j].result # "ok") =>
         /\ Completions = {}
         /\ Ended => exitStatus = 1
         /\ (Ended /\ options.json /\ stdoutJson # <<>>) => ~stdoutJson[1].success

\* a forward whose body could not be set ends without save or send
C28_Witness ==
  /\ IsReplyRun
  /\ Ended
  /\ options.command = "forward"
  /\ options.json
  /\ Len(calls) = 3
  /\ calls[2] = Call("addRecipient", options.to[1], "ok")
  /\ calls[3] = Call("setBody", "B", "fail")
  /\ stdoutJson # <<>>
  /\ ~stdoutJson[1].success

\* An MCP handler has returned after a step of it failed: no connection, a
\* gateway call that rejected, or one that came back with the target's
\* failure value.
HandlerStepFailed ==
  \/ conn = "none"
  \/ \E i \in 1..Len(calls) : calls[i].result = "throw"
  \/ ReportedFailure

\* C30 as stated: an MCP handler that returns after a failure at any step
\* returns isError:true, and a session it opened has been disconnected
\* exactly once.
C30_Original ==
  (options.command \in McpTools /\ status = "returned") =>
     /\ HandlerStepFailed => toolResult.isError
     /\ disconnectCalls = (IF conn = "none" THEN 0 ELSE 1)

BooleanDraftOps == {"setSubject", "addRecipient", "setBody", "saveDraft"}

\* What the caller holds of the target's error: the failure value handed
\* back names the target's message.
CarriesTargetMessage(r) == r.value \notin {"true", "false", "undefined"}

\* C24 as stated, for the draft operations: when the target's own code
\* raises during setSubject, addRecipient, setBody or saveDraft, the failure
\* handed to the caller carries the target's error message.
C24_Original ==
  (ret.kind = "returned" /\ ret.op \in BooleanDraftOps
     /\ "raised" \in DOMAIN ret /\ ret.raised)
    => ~ret.ok /\ CarriesTargetMessage(ret)

\* The words of a command line that are neither flags nor the value of a
\* flag, in the order they were typed.
ValueFlags == {"--label", "--until"}

PositionalIndexes(args) ==
  {i \in 1..Len(args) :
     /\ ~IsOption(args[i])
     /\ args[i] # "-h"
     /\ ~(i > 1 /\ args[i - 1] \in ValueFlags)}

PositionalsOf(args) ==
  LET at == PositionalIndexes(args) IN
  [k \in 1..Cardinality(at) |->
     args[CHOOSE i \in at : Cardinality({j \in at : j <= i}) = k]]

Typed(args, flag) == \E i \in 1..Len(args) : args[i] = flag

\* A command line that parseArgs has turned into a bulk command.
ParsedBulkCase ==
  /\ page.kind = "argv"
  /\ pc # "parse"
  /\ options.command \in BulkCommands

\* C26: for a bulk command parseArgs puts every positional argument after
\* the command into threadIds in the order typed, and --yes / --dry-run set
\* confirm / dryRun wherever they stand among the positionals; the runner
\* then acts on those ids in that order.
C26_ParseArgsCollectsIds ==
  ParsedBulkCase =>
    LET typed == PositionalsOf(page.args) IN
    /\ typed # <<>>
    /\ options.command = typed[1]
    /\ options.threadIds = Tail(typed)
    /\ options.confirm <=> Typed(page.args, "--yes")
    /\ options.dryRun <=> Typed(page.args, "--dry-run")
    /\ \A k \in 1..Len(executed) : executed[k] = Tail(typed)[k]

\* archive t1 --yes t2 has run on both ids
C26_Witness ==
  /\ ParsedBulkCase
  /\ page.args = <<"archive", "t1", "--yes", "t2">>
  /\ options.threadIds = <<"t1", "t2">>
  /\ options.confirm
  /\ executed = <<"t1", "t2">>
  /\ Ended

\* The commands main dispatches on and the words a command line can hold.
KnownCommands ==
  BulkCommands \cup SingleThreadCommands \cup ComposeCommands
    \cup {"", "help", "status", "accounts", "account", "inbox", "search",
          "labels", "starred", "snoozed", "download", "calendar"}
    \cup ArgTokens

\* C27: the commands for which parseArgs accumulates thread ids, the
\* commands the gate covers and the commands run through
\* runThreadActionCommand are the same ten, so no run started from a command
\* line acts on an id of a list of several unless --yes was given.
C27_NoUngatedBulk ==
  /\ \A c \in KnownCommands :
       /\ AccumulatesThreadIds(c) <=> isBulkDestructiveCommand(c)
       /\ isBulkDestructiveCommand(c) <=> c \in BulkCommands
  /\ page.kind = "argv" =>
       /\ Len(options.threadIds) > 1 =>
            \/ isBulkDestructiveCommand(options.command)
            \/ options.command = "help" /\ Typed(page.args, "-h")
       /\ executed # <<>> => isBulkDestructiveCommand(options.command)
       /\ (executed # <<>> /\ Len(options.threadIds) > 1) =>
            options.confirm /\ ~options.dryRun
       /\ connectCalls > 0 =>
            (Len(options.threadIds) <= 1 \/ options.confirm)

\* archive t1 t2 without --yes has been refused before anything ran
C27_Witness ==
  /\ page.kind = "argv"
  /\ page.args = <<"archive", "t1", "t2">>
  /\ options.threadIds = <<"t1", "t2">>
  /\ status = "exited"
  /\ exitStatus = 1
  /\ executed = <<>>
  /\ connectCalls = 0

====
